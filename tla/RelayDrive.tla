----------------------------- MODULE RelayDrive -----------------------------
(***************************************************************************)
(* What serial relay mode promises about the two relays of a motor with    *)
(* two coils (WindowPlugin/readme.txt): the direction only changes while   *)
(* the Enable switch is open, and there is some delay before it is closed  *)
(* again.                                                                  *)
(***************************************************************************)
EXTENDS Naturals

CONSTANTS
  Delay,     \* the Enable switch stays open for longer than this
  RestCap    \* bound: the rest of the motor is counted up to this

VARIABLES
  enable,     \* the Enable switch is closed
  direction,  \* the Direction switch is at "open"
  rest        \* time since the Enable switch has been opened

drive == <<enable, direction, rest>>

\* the lines may have any level when the program starts
DriveInit ==
  /\ enable \in BOOLEAN
  /\ direction \in BOOLEAN
  /\ rest = 0

\* the switch is opened, and the direction relay is released with it
Disconnect ==
  /\ enable' = FALSE
  /\ direction' = FALSE
  /\ rest' = IF enable THEN 0 ELSE rest

\* the switch is closed in one of the directions, after the delay
Connect ==
  /\ ~enable
  /\ rest > Delay
  /\ enable' = TRUE
  /\ direction' \in BOOLEAN
  /\ rest' = 0

\* time passes
Wait ==
  /\ ~enable
  /\ rest' = IF rest < RestCap THEN rest + 1 ELSE rest
  /\ UNCHANGED <<enable, direction>>

DriveNext == Disconnect \/ Connect \/ Wait

DriveSpec == DriveInit /\ [][DriveNext]_drive

\* The direction never changes while the coils stay connected.
NoHotSwitch == [][enable /\ enable' => direction' = direction]_drive
=============================================================================
