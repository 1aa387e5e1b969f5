----------------------------- MODULE ConfigStore ----------------------------
(***************************************************************************)
(* The encrypted configuration of Framework: the file config.iv with the   *)
(* initialisation vector, the configuration file, and the key kept by the  *)
(* Android key store under one alias.                                      *)
(*                                                                         *)
(* saveConfigFile and loadConfigFile run in any thread of the application  *)
(* and take no lock, so each of their file operations and each use of the  *)
(* fields configIV and configKey is a step of its own. The process may be  *)
(* killed between two steps; the next one begins with setConfigFile.       *)
(***************************************************************************)
EXTENDS Integers, FiniteSets

CONSTANTS
  Threads,      (* threads that save and load                                *)
  MaxVersion,   (* bound: versions of the configuration                      *)
  Sizes,        (* length of the file that holds each version                *)
  MaxIVs,       (* bound: initialisation vectors drawn                       *)
  MaxKeys,      (* bound: keys in use at a time                              *)
  MaxCrashes    (* bound: times the process is killed                        *)

ASSUME BoundsAssumption ==
  MaxVersion \in Nat \ {0} /\ MaxIVs \in Nat /\ MaxKeys \in Nat /\ MaxCrashes \in Nat
ASSUME SizesAssumption == Sizes \in [0 .. MaxVersion -> Nat \ {0}]

VARIABLES
  ivFile,      (* contents of config.iv                                      *)
  configFile,  (* contents of the configuration file                         *)
  storeKey,    (* the key under CONFIG_KEY_ALIAS, 0 for none                 *)
  config,      (* version of the configuration of the running stack          *)
  configIV,    (* the field configIV                                         *)
  configKey,   (* the field configKey, 0 for null                            *)
  length,      (* what configFile.length() has cached: at most one number    *)
  pc,          (* where each thread is in saveConfigFile or loadConfigFile   *)
  cipher,      (* the IV and the key of each thread's cipher                 *)
  text,        (* the version each thread saves or has loaded                *)
  latest, ivs, crashes,  (* versions, IVs and crashes so far                 *)
  sure,        (* history: no other thread has been saving meanwhile         *)
  saved        (* history: "never"; "intact" once a sure save has ended;     *)
               (* "touched" since a save has begun to change the disk again  *)

disk == <<ivFile, configFile, storeKey>>
fields == <<configIV, configKey>>
counters == <<latest, ivs, crashes>>
vars == <<disk, config, fields, length, pc, cipher, text, counters, sure, saved>>

NoFile == -1    \* config.iv does not exist
Empty == 0      \* config.iv, or the array read from it, has no bytes
Zeros == -2     \* an array of the right length that was never filled
Garbage == 0    \* what is loaded from a file that does not decrypt
Default == 1    \* the configuration of a stack that has just been started

Absent == [kind |-> "none", iv |-> 0, key |-> 0, version |-> 0]
Part == [Absent EXCEPT !.kind = "part"]
Encrypted(t) == [kind |-> "whole", iv |-> cipher[t].iv, key |-> cipher[t].key,
                 version |-> text[t]]
SizeOf(f) == IF f.kind = "whole" THEN Sizes[f.version] ELSE 0

Loading == {"read", "put"}
Saving == {"init", "newKey", "openIV", "writeIV", "getConfig", "openConfig", "write"}
Savers == {t \in Threads : pc[t] \in Saving}

Init ==
  /\ ivFile = NoFile /\ configFile = Absent /\ storeKey = 0
  /\ config = Default /\ configIV = Empty /\ configKey = 0
  /\ length = {}
  /\ pc = [t \in Threads |-> "idle"]
  /\ cipher = [t \in Threads |-> [iv |-> 0, key |-> 0]]
  /\ text = [t \in Threads |-> Garbage]
  /\ latest = Default /\ ivs = 0 /\ crashes = 0
  /\ sure = [t \in Threads |-> FALSE] /\ saved = "never"

At(t, p) == pc[t] = p
Goto(t, p) == pc' = [pc EXCEPT ![t] = p]
Touch == saved' = IF saved = "intact" THEN "touched" ELSE saved

-----------------------------------------------------------------------------
\* Bound: each save that has begun can still draw its vector.
IVsLeft == ivs + Cardinality({t \in Threads : pc[t] \in {"init", "newKey"}}) < MaxIVs

\* saveConfigFile is called.
BeginSave(t) ==
  /\ At(t, "idle") /\ IVsLeft /\ Goto(t, "init")
  /\ sure' = [u \in Threads |-> u = t /\ Savers = {}]
  /\ UNCHANGED <<disk, config, fields, length, cipher, text, counters, saved>>

(* The cipher does not take the key: any InvalidKeyException, of a null    *)
(* key or of one the key store no longer honours, has newConfigKey called. *)
InitFails(t) ==
  /\ At(t, "init") /\ Goto(t, "newKey")
  /\ UNCHANGED <<disk, config, fields, length, cipher, text, counters, sure, saved>>

\* Keys that the store, the field, the file or a cipher in use refers to.
InUse == {storeKey, configKey, configFile.key} \cup
         {cipher[t].key : t \in {u \in Threads : pc[u] \notin {"idle", "init", "newKey"}}}

(* generateKey replaces the key under the alias; the loop tries again. The *)
(* new key has the first number that nothing refers to.                    *)
NewKey(t) ==
  /\ At(t, "newKey") /\ Goto(t, "init")
  /\ \E k \in (1 .. MaxKeys) \ InUse :
       /\ \A j \in 1 .. k - 1 : j \in InUse
       /\ storeKey' = k /\ configKey' = k
  /\ Touch
  /\ UNCHANGED <<ivFile, configFile, config, configIV, length, cipher, text, counters,
                 sure>>

\* The key generator fails; the loop tries again all the same.
NewKeyFails(t) ==
  /\ At(t, "newKey") /\ Goto(t, "init")
  /\ UNCHANGED <<disk, config, fields, length, cipher, text, counters, sure, saved>>

\* Mutant: the new vector is not kept.
KeepIV == UNCHANGED configIV
\* configIV = configCipher.getIV()
SetIV == configIV' = ivs'

\* The cipher draws a new vector.
InitCipher(t) ==
  /\ At(t, "init") /\ configKey # 0 /\ Goto(t, "openIV")
  /\ ivs < MaxIVs /\ ivs' = ivs + 1
  /\ cipher' = [cipher EXCEPT ![t] = [iv |-> ivs', key |-> configKey]]
  /\ SetIV
  /\ UNCHANGED <<disk, config, configKey, length, text, latest, crashes, sure, saved>>

\* Mutant: a vector that cannot be written is tried again without end.
ThrowRetries(t) ==
  /\ Goto(t, IF pc[t] \in {"openIV", "writeIV"} THEN "openIV" ELSE "idle")
  /\ UNCHANGED <<storeKey, config, fields, length, cipher, text, counters, sure, saved>>
\* An IOException ends the call, whatever it has written.
Throw(t) ==
  /\ Goto(t, "idle")
  /\ UNCHANGED <<storeKey, config, fields, length, cipher, text, counters, sure, saved>>

\* config.iv is created or truncated.
OpenIV(t) ==
  /\ At(t, "openIV") /\ Goto(t, "writeIV")
  /\ ivFile' = Empty /\ Touch
  /\ UNCHANGED <<configFile, storeKey, config, fields, length, cipher, text, counters,
                 sure>>

OpenIVFails(t) == At(t, "openIV") /\ Throw(t) /\ UNCHANGED <<ivFile, configFile>>

\* The vector written is the field's, which the threads share.
WriteIV(t) ==
  /\ At(t, "writeIV") /\ Goto(t, "getConfig")
  /\ ivFile' = configIV
  /\ UNCHANGED <<configFile, storeKey, config, fields, length, cipher, text, counters,
                 sure, saved>>

WriteIVFails(t) ==
  /\ At(t, "writeIV") /\ Throw(t)
  /\ ivFile' \in {ivFile, configIV}
  /\ UNCHANGED configFile

\* The configuration is taken and encrypted only now.
GetConfig(t) ==
  /\ At(t, "getConfig") /\ Goto(t, "openConfig")
  /\ text' = [text EXCEPT ![t] = config]
  /\ UNCHANGED <<disk, config, fields, length, cipher, counters, sure, saved>>

\* The configuration file is created or truncated.
OpenConfig(t) ==
  /\ At(t, "openConfig") /\ Goto(t, "write")
  /\ configFile' = Part /\ Touch
  /\ UNCHANGED <<ivFile, storeKey, config, fields, length, cipher, text, counters, sure>>

OpenConfigFails(t) ==
  At(t, "openConfig") /\ Throw(t) /\ UNCHANGED <<ivFile, configFile>>

\* Written over a longer file, a configuration keeps the tail of that file.
Overwritten(t) ==
  IF SizeOf(configFile) > SizeOf(Encrypted(t)) THEN Part ELSE Encrypted(t)

WriteConfig(t) ==
  /\ At(t, "write") /\ Goto(t, "idle")
  /\ configFile' = Overwritten(t) /\ saved' = IF sure[t] THEN "intact" ELSE saved
  /\ UNCHANGED <<ivFile, storeKey, config, fields, length, cipher, text, counters, sure>>

WriteConfigFails(t) ==
  /\ At(t, "write") /\ Throw(t)
  /\ configFile' \in {Part, Overwritten(t)}
  /\ UNCHANGED ivFile

Save(t) ==
  \/ BeginSave(t) \/ InitFails(t) \/ NewKey(t) \/ NewKeyFails(t) \/ InitCipher(t)
  \/ OpenIV(t) \/ OpenIVFails(t) \/ WriteIV(t) \/ WriteIVFails(t) \/ GetConfig(t)
  \/ OpenConfig(t) \/ OpenConfigFails(t) \/ WriteConfig(t) \/ WriteConfigFails(t)

-----------------------------------------------------------------------------
(* loadConfigFile up to the initialisation of its cipher, which throws     *)
(* without a vector or a key.                                              *)
BeginLoad(t) ==
  /\ At(t, "idle") /\ configIV # Empty /\ configKey # 0 /\ Goto(t, "read")
  /\ cipher' = [cipher EXCEPT ![t] = [iv |-> configIV, key |-> configKey]]
  /\ sure' = [sure EXCEPT ![t] = Savers = {}]
  /\ UNCHANGED <<disk, config, fields, length, text, counters, saved>>

\* The tag of AES/GCM: the whole file, and the vector and key it was written with.
Decrypts(t) ==
  /\ configFile.kind = "whole" /\ length' = {SizeOf(configFile)}
  /\ cipher[t] = [iv |-> configFile.iv, key |-> configFile.key]

\* Mutant: the bytes read are loaded, not what they decrypt to.
LoadedRaw(t) == Garbage
\* What does not decrypt is taken for plain text.
Loaded(t) == IF Decrypts(t) THEN configFile.version ELSE Garbage

(* As many bytes are read as configFile.length() has cached, or now        *)
(* length. What does not decrypt is taken for plain text.                  *)
ReadConfig(t) ==
  /\ At(t, "read") /\ configFile.kind # "none" /\ Goto(t, "put")
  /\ length' = IF length = {} THEN {SizeOf(configFile)} ELSE length
  /\ text' = [text EXCEPT ![t] = Loaded(t)]
  /\ UNCHANGED <<disk, config, fields, cipher, counters, sure, saved>>

\* The file cannot be opened (its length is not asked) or cannot be read.
ReadConfigFails(t) ==
  /\ At(t, "read") /\ Goto(t, "idle")
  /\ \/ UNCHANGED length
     \/ configFile.kind # "none" /\ length = {} /\ length' = {SizeOf(configFile)}
  /\ UNCHANGED <<disk, config, fields, cipher, text, counters, sure, saved>>

PutConfig(t) ==
  /\ At(t, "put") /\ Goto(t, "idle")
  /\ config' = text[t]
  /\ UNCHANGED <<disk, fields, length, cipher, text, counters, sure, saved>>

Load(t) == BeginLoad(t) \/ ReadConfig(t) \/ ReadConfigFails(t) \/ PutConfig(t)

-----------------------------------------------------------------------------
\* The application or the stack changes the configuration.
Change ==
  /\ latest < MaxVersion /\ latest' = latest + 1 /\ config' = latest'
  /\ UNCHANGED <<disk, fields, length, pc, cipher, text, ivs, crashes, sure, saved>>

\* A key store that cannot be read leaves the field alone.
GetConfigKey ==
  /\ configKey' = storeKey
  /\ UNCHANGED <<disk, config, configIV, length, pc, cipher, text, counters, sure, saved>>

\* Mutant: the array is not sized by the file.
UncheckedIV == {ivFile, Zeros}
(* What setConfigFile leaves in configIV: the bytes of config.iv, none     *)
(* when its length cannot be had, zeros when it cannot be opened or read.  *)
IVRead == {Empty} \cup (IF ivFile \in {NoFile, Empty} THEN {} ELSE {ivFile, Zeros})

\* The process is killed, and a new one calls setConfigFile.
Restart ==
  /\ crashes < MaxCrashes /\ crashes' = crashes + 1
  /\ config' = Default /\ configIV' \in IVRead /\ configKey' = 0
  /\ length' = {}
  /\ pc' = [t \in Threads |-> "idle"] /\ sure' = [t \in Threads |-> FALSE]
  /\ UNCHANGED <<disk, cipher, text, latest, ivs, saved>>

Next ==
  \/ \E t \in Threads : Save(t) \/ Load(t)
  \/ Change \/ GetConfigKey \/ Restart

\* A call that has begun goes on; no call has to be made.
Fairness ==
  \A t \in Threads : WF_vars(pc[t] # "idle" /\ (Save(t) \/ Load(t)))

Spec == Init /\ [][Next]_vars /\ Fairness

-----------------------------------------------------------------------------
(* Type correctness.                                                       *)
IVs == Zeros .. MaxIVs
Versions == 0 .. MaxVersion
Files == [kind : {"none", "part", "whole"}, iv : IVs, key : 0 .. MaxKeys,
          version : Versions]
TypeOK ==
  /\ ivFile \in IVs /\ storeKey \in 0 .. MaxKeys
  /\ configFile \in Files /\ config \in Versions
  /\ configIV \in IVs \ {NoFile} /\ configKey \in 0 .. MaxKeys
  /\ length \in SUBSET Nat
  /\ pc \in [Threads -> {"idle"} \cup Saving \cup Loading]
  /\ cipher \in [Threads -> [iv : IVs, key : 0 .. MaxKeys]]
  /\ text \in [Threads -> Versions]
  /\ latest \in Versions /\ ivs \in 0 .. MaxIVs
  /\ crashes \in 0 .. MaxCrashes
  /\ sure \in [Threads -> BOOLEAN] /\ saved \in {"never", "intact", "touched"}

(* After a save that no other save overlapped and nothing cut short, and   *)
(* until the next one touches the disk, the two files and the key belong   *)
(* together: whatever earlier saves left behind, the next process can read *)
(* the configuration.                                                      *)
Whole == /\ configFile.kind = "whole" /\ configFile.iv = ivFile
         /\ configFile.key = storeKey
DiskIsWhole == saved = "intact" => Whole

(* A load of such a disk puts the version saved: neither the ciphertext    *)
(* nor another version, provided that the vector in memory is the disk's   *)
(* and that the length cached for the file is still its length.            *)
LoadGivesSaved ==
  \A t \in Threads :
    At(t, "put") /\ sure[t] /\ saved = "intact" /\ configIV = ivFile
    /\ length = {SizeOf(configFile)} => text[t] = configFile.version

(* A save ends, unless the key generator fails again and again, or one key *)
(* after another is refused: the loop of saveConfigFile has no other end.  *)
SaveEnds ==
  \A t \in Threads :
    \/ []<>(pc[t] \notin Saving)
    \/ []<><<NewKeyFails(t)>>_vars
    \/ []<><<InitFails(t) /\ configKey # 0>>_vars
=============================================================================
