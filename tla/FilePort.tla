------------------------------ MODULE FilePort ------------------------------
(***************************************************************************)
(* A File port with its value port: a thread watches the file and asks for *)
(* a reload, doWork reads the file, and the user's changes of the value    *)
(* are written to it.  Another process writes the file too, in two steps:  *)
(* the file is empty first.                                                *)
(*                                                                         *)
(* Reading and deleting the file are two steps, since the other process    *)
(* and the watcher do not wait for the main thread.                        *)
(***************************************************************************)
EXTENDS Integers

CONSTANTS
  FileConfigs   \* see FileType

VARIABLES
  fileConf,      \* the configuration
  file,          \* content of the file
  changedFile,   \* the watcher has not looked since the file changed
  needsReload,
  fileLine,      \* the port is active
  value, valueError,
  sinceReload,   \* time since lastReloadTime
  reloaded,      \* lastReloadTime is set
  reading,       \* the content that has been read and not been used: one or none
  unread         \* the content has come while the port was active: history

fileVars == <<fileConf, file, changedFile, needsReload, fileLine, value, valueError, sinceReload,
              reloaded, reading, unread>>

\* the values of the value port, and what may stand in a file
MaxValue == 2
Values == 0 .. MaxValue
None == -1
Empty == -2
Bad == -3
Contents == Values \cup {Bad}

\* numerator: what is read is multiplied with it; times in the units of a tick
FileType ==
  [readonly : BOOLEAN, deleteAfterRead : BOOLEAN, delay : 0 .. 1, expiry : 0 .. 2, numerator : 1 .. 2]

ASSUME FileAssumption == FileConfigs \subseteq FileType

\* bound of sinceReload
ReloadCap == 3

FileTypeOK ==
  /\ fileConf \in FileType
  /\ file \in Contents \cup {None, Empty}
  /\ changedFile \in BOOLEAN /\ needsReload \in BOOLEAN
  /\ fileLine \in 0 .. 1
  /\ value \in Values
  /\ valueError \in {"ok", "unavailable", "expired"}
  /\ sinceReload \in 0 .. ReloadCap
  /\ reloaded \in BOOLEAN
  /\ reading \in SUBSET (Contents \cup {None, Empty})
  /\ unread \in BOOLEAN

\* the file is loaded at the start if it is there and has not expired
FileInit ==
  /\ fileConf \in FileConfigs
  /\ file \in {None, Bad, 1}
  /\ changedFile = FALSE
  /\ needsReload \in (IF file = None THEN {FALSE} ELSE IF fileConf.expiry = 0 THEN {TRUE} ELSE BOOLEAN)
  /\ fileLine = 1
  /\ value = 0
  /\ valueError = "unavailable"
  /\ sinceReload = 0
  /\ reloaded = FALSE
  /\ reading = {}
  /\ unread = FALSE

-----------------------------------------------------------------------------
(* doWork *)

Expires ==
  fileConf.expiry > 0 /\ reloaded /\ sinceReload > fileConf.expiry /\ valueError = "ok"

Delayed == fileConf.delay > 0 /\ reloaded /\ sinceReload < fileConf.delay

\* a doWork that does not read the file
FileIdle ==
  /\ reading = {}
  /\ fileLine = 0 \/ Delayed \/ ~needsReload
  /\ valueError' = IF Expires THEN "expired" ELSE valueError
  /\ needsReload' = (needsReload /\ fileLine = 1)
  /\ UNCHANGED <<fileConf, file, changedFile, fileLine, value, sinceReload, reloaded, reading, unread>>

\* the time is set and the flag is cleared before the file is read
FileReads ==
  /\ reading = {}
  /\ fileLine = 1 /\ ~Delayed /\ needsReload
  /\ valueError' = IF Expires THEN "expired" ELSE valueError
  /\ needsReload' = FALSE
  /\ reloaded' = TRUE
  /\ sinceReload' = 0
  /\ reading' = {file}
  /\ UNCHANGED <<fileConf, file, changedFile, fileLine, value, unread>>

Scaled(content) == content * fileConf.numerator

Understood(content) == content \in Values /\ Scaled(content) \in Values

\* An empty file is left alone; the file that can not be understood is not.
FileUsed ==
  /\ \E content \in reading :
       /\ IF Understood(content)
          THEN value' = Scaled(content) /\ valueError' = "ok"
          ELSE UNCHANGED <<value, valueError>>
       /\ IF fileConf.deleteAfterRead /\ content # Empty
          THEN file' = None /\ changedFile' = changedFile
          ELSE UNCHANGED <<file, changedFile>>
       /\ unread' = (unread /\ content # file)
  /\ reading' = {}
  /\ UNCHANGED <<fileConf, needsReload, fileLine, sinceReload, reloaded>>

-----------------------------------------------------------------------------
(* The watcher, the other process, the user and other ports *)

\* mutant of FileChangedEvent: a change is not noted while the file is read
FileChangedEventLost ==
  /\ changedFile
  /\ changedFile' = FALSE
  /\ needsReload' = (needsReload \/ reading = {})
  /\ UNCHANGED <<fileConf, file, fileLine, value, valueError, sinceReload, reloaded, reading, unread>>

FileChangedEvent ==
  /\ changedFile
  /\ changedFile' = FALSE
  /\ needsReload' = TRUE
  /\ UNCHANGED <<fileConf, file, fileLine, value, valueError, sinceReload, reloaded, reading, unread>>

OtherProcess ==
  /\ \/ file' = Empty
     \/ file = Empty /\ file' \in Contents
  /\ changedFile' = TRUE
  /\ unread' = (fileLine = 1 /\ file' \in Values)
  /\ UNCHANGED <<fileConf, needsReload, fileLine, value, valueError, sinceReload, reloaded, reading>>

\* writeContent, by way of the change handler: integer division
UserSets ==
  /\ reading = {} /\ ~fileConf.readonly
  /\ \E v \in Values :
       /\ value' = v
       /\ valueError' = "ok"
       /\ IF fileLine = 1 /\ (v # value \/ valueError # "ok")
          THEN file' = v \div fileConf.numerator /\ changedFile' = TRUE /\ unread' = FALSE
          ELSE UNCHANGED <<file, changedFile, unread>>
  /\ UNCHANGED <<fileConf, needsReload, fileLine, sinceReload, reloaded, reading>>

\* internal changes do not reach the change handler
PortSets ==
  /\ reading = {}
  /\ value' \in Values
  /\ valueError' = "ok"
  /\ UNCHANGED <<fileConf, file, changedFile, needsReload, fileLine, sinceReload, reloaded, reading, unread>>

FileSwitch ==
  /\ reading = {}
  /\ fileLine' = 1 - fileLine
  /\ unread' = FALSE
  /\ UNCHANGED <<fileConf, file, changedFile, needsReload, value, valueError, sinceReload, reloaded, reading>>

FileTick ==
  /\ reloaded /\ sinceReload < ReloadCap
  /\ sinceReload' = sinceReload + 1
  /\ UNCHANGED <<fileConf, file, changedFile, needsReload, fileLine, value, valueError, reloaded, reading, unread>>

FileDoWork == FileIdle \/ FileReads \/ FileUsed
FileNext ==
  FileDoWork \/ FileChangedEvent \/ OtherProcess \/ UserSets \/ PortSets \/ FileSwitch \/ FileTick

\* the main loop and the watcher go on, and time does
FileFairness ==
  WF_fileVars(FileDoWork) /\ WF_fileVars(FileChangedEvent) /\ WF_fileVars(FileTick)
FileSpec == FileInit /\ [][FileNext]_fileVars /\ FileFairness

-----------------------------------------------------------------------------
(* Properties *)

\* Content that comes while the port is active is read, whenever the watcher
\* sees it and however it falls between the steps of a reload, if the file is
\* not deleted by the port and does not change again.
ContentRead ==
  ~fileConf.deleteAfterRead =>
    ((unread /\ file \in Values) ~> (~unread \/ file \notin Values))

\* A value that is not renewed expires, unless others set it: the time counts
\* from the last reload, even if nothing could be read then.
ValueExpires ==
  fileConf.expiry > 0 =>
    []<>(valueError # "ok") \/ []<><<FileReads \/ UserSets \/ PortSets>>_fileVars \/ <>[]~reloaded

\* What the file says counts, and does so for a limited time.
ContentCounts == ContentRead /\ ValueExpires
=============================================================================
