------------------------ MODULE ConfigStore_proofs --------------------------
(***************************************************************************)
(* Proofs about ConfigStore, for any number of threads and any bounds: its *)
(* types, DiskIsWhole and LoadGivesSaved. The invariant behind them says   *)
(* who can be saving at the same time as a sure thread, and what its       *)
(* cipher, the fields and the disk have in common at each of its steps.    *)
(***************************************************************************)
EXTENDS ConfigStore, TLAPS

Writing == {"writeIV", "getConfig", "openConfig", "write"}

\* A sure thread has no company among the savers.
Alone == \A t, u \in Threads :
           sure[t] /\ pc[t] # "idle" /\ pc[u] \in Saving => u = t

\* The field configKey is null or the key in the store.
KeyHeld == configKey \in {0, storeKey}

\* A disk said to be intact is not being written.
Quiet == \A t \in Threads : pc[t] \in Writing => saved # "intact"

\* The cipher of a sure thread, the fields and the files agree.
CipherAgrees ==
  \A t \in Threads : sure[t] =>
    /\ pc[t] \in Writing \cup {"openIV", "read"} => cipher[t].key = storeKey
    /\ pc[t] \in {"openIV", "writeIV", "read"} => cipher[t].iv = configIV
    /\ pc[t] \in {"getConfig", "openConfig", "write"} => cipher[t].iv = ivFile
    /\ pc[t] = "write" => configFile = Part

\* A thread that has read the file has cached a length for it.
LengthKnown == \A t \in Threads : pc[t] = "put" => length # {}

IInv == /\ TypeOK /\ Alone /\ KeyHeld /\ Quiet /\ CipherAgrees /\ LengthKnown
        /\ DiskIsWhole /\ LoadGivesSaved

\* The abbreviations every step below needs.
USE DEF At, Goto, Saving, Loading, Savers, Writing, disk, fields, counters

\* The initial states: nothing has been saved.
LEMMA InitIInv == Init => IInv
  BY BoundsAssumption
  DEF Init, IInv, Alone, KeyHeld, Quiet, CipherAgrees, LengthKnown, DiskIsWhole,
      LoadGivesSaved,
      TypeOK, Files, IVs, Versions, NoFile, Empty, Zeros, Garbage, Default, Absent, Part

\* What the files can hold, and how long the configuration file is.
LEMMA FilesHold ==
  ASSUME TypeOK, NEW t \in Threads
  PROVE  Absent \in Files /\ Part \in Files /\ Encrypted(t) \in Files
  BY BoundsAssumption DEF TypeOK, Files, IVs, Versions, Absent, Part, Encrypted, Zeros

\* The configuration file has a length.
LEMMA SizeIsNat == ASSUME TypeOK PROVE SizeOf(configFile) \in Nat
  BY SizesAssumption, BoundsAssumption DEF TypeOK, Files, Versions, SizeOf

\* A file that has just been truncated is replaced by what is written.
LEMMA WrittenOverPart ==
  ASSUME TypeOK, NEW t \in Threads, configFile = Part
  PROVE  Overwritten(t) = Encrypted(t)
<1>1. text[t] \in Versions
  BY DEF TypeOK
<1>2. SizeOf(Encrypted(t)) = Sizes[text[t]] /\ Sizes[text[t]] \in Nat
  BY <1>1, SizesAssumption DEF SizeOf, Encrypted, Versions
<1>3. SizeOf(configFile) = 0
  BY DEF SizeOf, Part, Absent
<1> QED BY <1>2, <1>3 DEF Overwritten

\* Whoever was sure no longer is; the newcomer is if it is the only saver.
LEMMA BeginSaveStep ==
  ASSUME IInv, NEW t \in Threads, BeginSave(t)
  PROVE  IInv'
<1>1. TypeOK'
  BY BoundsAssumption DEF IInv, BeginSave, IVsLeft, TypeOK, IVs, Versions
<1>2. Alone' /\ KeyHeld' /\ Quiet'
  BY DEF IInv, BeginSave, IVsLeft, TypeOK, Alone, KeyHeld, Quiet
<1>3. CipherAgrees' /\ LengthKnown'
  BY DEF IInv, BeginSave, IVsLeft, TypeOK, Alone, KeyHeld, CipherAgrees,
     LengthKnown
<1>4. DiskIsWhole'
  BY DEF IInv, BeginSave, IVsLeft, TypeOK, Quiet, DiskIsWhole, Whole
<1>5. LoadGivesSaved'
  BY DEF IInv, BeginSave, IVsLeft, TypeOK, Alone, Quiet, CipherAgrees,
     LengthKnown, DiskIsWhole, Whole, LoadGivesSaved, SizeOf
<1> QED BY <1>1, <1>2, <1>3, <1>4, <1>5 DEF IInv

\* A key refused: nothing but the step changes.
LEMMA InitFailsStep ==
  ASSUME IInv, NEW t \in Threads, InitFails(t)
  PROVE  IInv'
<1>1. TypeOK'
  BY BoundsAssumption DEF IInv, InitFails, TypeOK, IVs, Versions
<1>2. Alone' /\ KeyHeld' /\ Quiet'
  BY DEF IInv, InitFails, TypeOK, Alone, KeyHeld, Quiet
<1>3. CipherAgrees' /\ LengthKnown'
  BY DEF IInv, InitFails, TypeOK, Alone, KeyHeld, CipherAgrees, LengthKnown
<1>4. DiskIsWhole'
  BY DEF IInv, InitFails, TypeOK, Quiet, DiskIsWhole, Whole
<1>5. LoadGivesSaved'
  BY DEF IInv, InitFails, TypeOK, Alone, Quiet, CipherAgrees, LengthKnown,
     DiskIsWhole, Whole, LoadGivesSaved, SizeOf
<1> QED BY <1>1, <1>2, <1>3, <1>4, <1>5 DEF IInv

\* A new key: the disk is no longer intact; no sure cipher is in use.
LEMMA NewKeyStep ==
  ASSUME IInv, NEW t \in Threads, NewKey(t)
  PROVE  IInv'
<1>1. TypeOK'
  BY BoundsAssumption DEF IInv, NewKey, Touch, TypeOK, IVs, Versions
<1>2. Alone' /\ KeyHeld' /\ Quiet'
  BY DEF IInv, NewKey, Touch, TypeOK, Alone, KeyHeld, Quiet
<1>3. CipherAgrees' /\ LengthKnown'
  BY DEF IInv, NewKey, Touch, TypeOK, Alone, KeyHeld, CipherAgrees,
     LengthKnown
<1>4. DiskIsWhole'
  BY DEF IInv, NewKey, Touch, TypeOK, Quiet, DiskIsWhole, Whole
<1>5. LoadGivesSaved'
  BY DEF IInv, NewKey, Touch, TypeOK, Alone, Quiet, CipherAgrees, LengthKnown,
     DiskIsWhole, Whole, LoadGivesSaved, SizeOf
<1> QED BY <1>1, <1>2, <1>3, <1>4, <1>5 DEF IInv

\* No new key: nothing but the step changes.
LEMMA NewKeyFailsStep ==
  ASSUME IInv, NEW t \in Threads, NewKeyFails(t)
  PROVE  IInv'
<1>1. TypeOK'
  BY BoundsAssumption DEF IInv, NewKeyFails, TypeOK, IVs, Versions
<1>2. Alone' /\ KeyHeld' /\ Quiet'
  BY DEF IInv, NewKeyFails, TypeOK, Alone, KeyHeld, Quiet
<1>3. CipherAgrees' /\ LengthKnown'
  BY DEF IInv, NewKeyFails, TypeOK, Alone, KeyHeld, CipherAgrees, LengthKnown
<1>4. DiskIsWhole'
  BY DEF IInv, NewKeyFails, TypeOK, Quiet, DiskIsWhole, Whole
<1>5. LoadGivesSaved'
  BY DEF IInv, NewKeyFails, TypeOK, Alone, Quiet, CipherAgrees, LengthKnown,
     DiskIsWhole, Whole, LoadGivesSaved, SizeOf
<1> QED BY <1>1, <1>2, <1>3, <1>4, <1>5 DEF IInv

\* The cipher is made of the fields, and the key held is the store's.
LEMMA InitCipherStep ==
  ASSUME IInv, NEW t \in Threads, InitCipher(t)
  PROVE  IInv'
<1>1. TypeOK'
  BY BoundsAssumption DEF IInv, InitCipher, SetIV, TypeOK, IVs, Versions,
     NoFile, Zeros
<1>2. Alone' /\ KeyHeld' /\ Quiet'
  BY DEF IInv, InitCipher, SetIV, TypeOK, Alone, KeyHeld, Quiet
<1>3. CipherAgrees' /\ LengthKnown'
  BY DEF IInv, InitCipher, SetIV, TypeOK, Alone, KeyHeld, CipherAgrees,
     LengthKnown
<1>4. DiskIsWhole'
  BY DEF IInv, InitCipher, SetIV, TypeOK, Quiet, DiskIsWhole, Whole
<1>5. LoadGivesSaved'
  BY DEF IInv, InitCipher, SetIV, TypeOK, Alone, Quiet, CipherAgrees,
     LengthKnown, DiskIsWhole, Whole, LoadGivesSaved, SizeOf
<1> QED BY <1>1, <1>2, <1>3, <1>4, <1>5 DEF IInv

\* From here on the disk is not intact.
LEMMA OpenIVStep ==
  ASSUME IInv, NEW t \in Threads, OpenIV(t)
  PROVE  IInv'
<1>1. TypeOK'
  BY BoundsAssumption DEF IInv, OpenIV, Touch, TypeOK, IVs, Versions, Empty,
     Zeros
<1>2. Alone' /\ KeyHeld' /\ Quiet'
  BY DEF IInv, OpenIV, Touch, TypeOK, Alone, KeyHeld, Quiet
<1>3. CipherAgrees' /\ LengthKnown'
  BY DEF IInv, OpenIV, Touch, TypeOK, Alone, KeyHeld, CipherAgrees,
     LengthKnown
<1>4. DiskIsWhole'
  BY DEF IInv, OpenIV, Touch, TypeOK, Quiet, DiskIsWhole, Whole
<1>5. LoadGivesSaved'
  BY DEF IInv, OpenIV, Touch, TypeOK, Alone, Quiet, CipherAgrees, LengthKnown,
     DiskIsWhole, Whole, LoadGivesSaved, SizeOf
<1> QED BY <1>1, <1>2, <1>3, <1>4, <1>5 DEF IInv

\* The disk is as it was.
LEMMA OpenIVFailsStep ==
  ASSUME IInv, NEW t \in Threads, OpenIVFails(t)
  PROVE  IInv'
<1>1. TypeOK'
  BY BoundsAssumption DEF IInv, OpenIVFails, Throw, TypeOK, IVs, Versions
<1>2. Alone' /\ KeyHeld' /\ Quiet'
  BY DEF IInv, OpenIVFails, Throw, TypeOK, Alone, KeyHeld, Quiet
<1>3. CipherAgrees' /\ LengthKnown'
  BY DEF IInv, OpenIVFails, Throw, TypeOK, Alone, KeyHeld, CipherAgrees,
     LengthKnown
<1>4. DiskIsWhole'
  BY DEF IInv, OpenIVFails, Throw, TypeOK, Quiet, DiskIsWhole, Whole
<1>5. LoadGivesSaved'
  BY DEF IInv, OpenIVFails, Throw, TypeOK, Alone, Quiet, CipherAgrees,
     LengthKnown, DiskIsWhole, Whole, LoadGivesSaved, SizeOf
<1> QED BY <1>1, <1>2, <1>3, <1>4, <1>5 DEF IInv

\* The vector written is that of a sure thread's cipher.
LEMMA WriteIVStep ==
  ASSUME IInv, NEW t \in Threads, WriteIV(t)
  PROVE  IInv'
<1>1. TypeOK'
  BY BoundsAssumption DEF IInv, WriteIV, TypeOK, IVs, Versions
<1>2. Alone' /\ KeyHeld' /\ Quiet'
  BY DEF IInv, WriteIV, TypeOK, Alone, KeyHeld, Quiet
<1>3. CipherAgrees' /\ LengthKnown'
  BY DEF IInv, WriteIV, TypeOK, Alone, KeyHeld, CipherAgrees, LengthKnown
<1>4. DiskIsWhole'
  BY DEF IInv, WriteIV, TypeOK, Quiet, DiskIsWhole, Whole
<1>5. LoadGivesSaved'
  BY DEF IInv, WriteIV, TypeOK, Alone, Quiet, CipherAgrees, LengthKnown,
     DiskIsWhole, Whole, LoadGivesSaved, SizeOf
<1> QED BY <1>1, <1>2, <1>3, <1>4, <1>5 DEF IInv

\* The disk was not intact anyway.
LEMMA WriteIVFailsStep ==
  ASSUME IInv, NEW t \in Threads, WriteIVFails(t)
  PROVE  IInv'
<1>1. TypeOK'
  BY BoundsAssumption DEF IInv, WriteIVFails, Throw, TypeOK, IVs, Versions
<1>2. Alone' /\ KeyHeld' /\ Quiet'
  BY DEF IInv, WriteIVFails, Throw, TypeOK, Alone, KeyHeld, Quiet
<1>3. CipherAgrees' /\ LengthKnown'
  BY DEF IInv, WriteIVFails, Throw, TypeOK, Alone, KeyHeld, CipherAgrees,
     LengthKnown
<1>4. DiskIsWhole'
  BY DEF IInv, WriteIVFails, Throw, TypeOK, Quiet, DiskIsWhole, Whole
<1>5. LoadGivesSaved'
  BY DEF IInv, WriteIVFails, Throw, TypeOK, Alone, Quiet, CipherAgrees,
     LengthKnown, DiskIsWhole, Whole, LoadGivesSaved, SizeOf
<1> QED BY <1>1, <1>2, <1>3, <1>4, <1>5 DEF IInv

\* Only the text to encrypt changes.
LEMMA GetConfigStep ==
  ASSUME IInv, NEW t \in Threads, GetConfig(t)
  PROVE  IInv'
<1>1. TypeOK'
  BY BoundsAssumption DEF IInv, GetConfig, TypeOK, IVs, Versions
<1>2. Alone' /\ KeyHeld' /\ Quiet'
  BY DEF IInv, GetConfig, TypeOK, Alone, KeyHeld, Quiet
<1>3. CipherAgrees' /\ LengthKnown'
  BY DEF IInv, GetConfig, TypeOK, Alone, KeyHeld, CipherAgrees, LengthKnown
<1>4. DiskIsWhole'
  BY DEF IInv, GetConfig, TypeOK, Quiet, DiskIsWhole, Whole
<1>5. LoadGivesSaved'
  BY DEF IInv, GetConfig, TypeOK, Alone, Quiet, CipherAgrees, LengthKnown,
     DiskIsWhole, Whole, LoadGivesSaved, SizeOf
<1> QED BY <1>1, <1>2, <1>3, <1>4, <1>5 DEF IInv

\* The file is truncated; the disk was not intact anyway.
LEMMA OpenConfigStep ==
  ASSUME IInv, NEW t \in Threads, OpenConfig(t)
  PROVE  IInv'
<1>1. TypeOK'
  BY FilesHold DEF IInv, OpenConfig, Touch, TypeOK
<1>2. Alone' /\ KeyHeld' /\ Quiet'
  BY DEF IInv, OpenConfig, Touch, TypeOK, Alone, KeyHeld, Quiet
<1>3. CipherAgrees' /\ LengthKnown'
  BY DEF IInv, OpenConfig, Touch, TypeOK, Alone, KeyHeld, CipherAgrees,
     LengthKnown
<1>4. DiskIsWhole'
  BY DEF IInv, OpenConfig, Touch, TypeOK, Quiet, DiskIsWhole, Whole
<1>5. LoadGivesSaved'
  BY DEF IInv, OpenConfig, Touch, TypeOK, Alone, Quiet, CipherAgrees,
     LengthKnown, DiskIsWhole, Whole, LoadGivesSaved, SizeOf
<1> QED BY <1>1, <1>2, <1>3, <1>4, <1>5 DEF IInv

\* The disk is as it was.
LEMMA OpenConfigFailsStep ==
  ASSUME IInv, NEW t \in Threads, OpenConfigFails(t)
  PROVE  IInv'
<1>1. TypeOK'
  BY BoundsAssumption DEF IInv, OpenConfigFails, Throw, TypeOK, IVs, Versions
<1>2. Alone' /\ KeyHeld' /\ Quiet'
  BY DEF IInv, OpenConfigFails, Throw, TypeOK, Alone, KeyHeld, Quiet
<1>3. CipherAgrees' /\ LengthKnown'
  BY DEF IInv, OpenConfigFails, Throw, TypeOK, Alone, KeyHeld, CipherAgrees,
     LengthKnown
<1>4. DiskIsWhole'
  BY DEF IInv, OpenConfigFails, Throw, TypeOK, Quiet, DiskIsWhole, Whole
<1>5. LoadGivesSaved'
  BY DEF IInv, OpenConfigFails, Throw, TypeOK, Alone, Quiet, CipherAgrees,
     LengthKnown, DiskIsWhole, Whole, LoadGivesSaved, SizeOf
<1> QED BY <1>1, <1>2, <1>3, <1>4, <1>5 DEF IInv

\* What a sure thread writes completes an intact disk.
LEMMA WriteConfigStep ==
  ASSUME IInv, NEW t \in Threads, WriteConfig(t)
  PROVE  IInv'
<1>1. TypeOK'
  BY FilesHold DEF IInv, WriteConfig, Overwritten, TypeOK
<1>2. Alone' /\ KeyHeld' /\ Quiet'
  BY DEF IInv, WriteConfig, Overwritten, Encrypted, TypeOK, Alone, KeyHeld,
     Quiet
<1>3. CipherAgrees' /\ LengthKnown'
  BY DEF IInv, WriteConfig, Overwritten, Encrypted, TypeOK, Alone, KeyHeld,
     CipherAgrees, LengthKnown
<1>4. DiskIsWhole'
  <2>1. CASE sure[t]
    <3>1. configFile' = Encrypted(t)
      BY <2>1, WrittenOverPart DEF IInv, WriteConfig, CipherAgrees
    <3> QED
      BY <2>1, <3>1 DEF IInv, WriteConfig, CipherAgrees, DiskIsWhole, Whole, Encrypted
  <2>2. CASE ~sure[t]
    BY <2>2 DEF IInv, WriteConfig, TypeOK, Quiet, DiskIsWhole
  <2> QED BY <2>1, <2>2
<1>5. LoadGivesSaved'
  BY DEF IInv, WriteConfig, TypeOK, Alone, Quiet, CipherAgrees, LengthKnown,
     DiskIsWhole, Whole, LoadGivesSaved, SizeOf
<1> QED BY <1>1, <1>2, <1>3, <1>4, <1>5 DEF IInv

\* The disk was not intact anyway.
LEMMA WriteConfigFailsStep ==
  ASSUME IInv, NEW t \in Threads, WriteConfigFails(t)
  PROVE  IInv'
<1>1. TypeOK'
  BY FilesHold DEF IInv, WriteConfigFails, Throw, Overwritten, TypeOK
<1>2. Alone' /\ KeyHeld' /\ Quiet'
  BY DEF IInv, WriteConfigFails, Throw, Overwritten, Encrypted, TypeOK, Alone,
     KeyHeld, Quiet
<1>3. CipherAgrees' /\ LengthKnown'
  BY DEF IInv, WriteConfigFails, Throw, Overwritten, Encrypted, TypeOK, Alone,
     KeyHeld, CipherAgrees, LengthKnown
<1>4. DiskIsWhole'
  BY DEF IInv, WriteConfigFails, Throw, Overwritten, Encrypted, TypeOK, Quiet,
     DiskIsWhole, Whole
<1>5. LoadGivesSaved'
  BY DEF IInv, WriteConfigFails, Throw, TypeOK, Alone, Quiet, CipherAgrees,
     LengthKnown, DiskIsWhole, Whole, LoadGivesSaved, SizeOf
<1> QED BY <1>1, <1>2, <1>3, <1>4, <1>5 DEF IInv

\* The cipher is made of the fields.
LEMMA BeginLoadStep ==
  ASSUME IInv, NEW t \in Threads, BeginLoad(t)
  PROVE  IInv'
<1>1. TypeOK'
  BY BoundsAssumption DEF IInv, BeginLoad, TypeOK, IVs, Versions
<1>2. Alone' /\ KeyHeld' /\ Quiet'
  BY DEF IInv, BeginLoad, TypeOK, Alone, KeyHeld, Quiet
<1>3. CipherAgrees' /\ LengthKnown'
  BY DEF IInv, BeginLoad, TypeOK, Alone, KeyHeld, CipherAgrees, LengthKnown
<1>4. DiskIsWhole'
  BY DEF IInv, BeginLoad, TypeOK, Quiet, DiskIsWhole, Whole
<1>5. LoadGivesSaved'
  BY DEF IInv, BeginLoad, TypeOK, Alone, Quiet, CipherAgrees, LengthKnown,
     DiskIsWhole, Whole, LoadGivesSaved, SizeOf
<1> QED BY <1>1, <1>2, <1>3, <1>4, <1>5 DEF IInv

\* A sure cipher decrypts an intact file of the length cached.
LEMMA ReadConfigStep ==
  ASSUME IInv, NEW t \in Threads, ReadConfig(t)
  PROVE  IInv'
<1>1. TypeOK'
  BY BoundsAssumption, SizeIsNat DEF IInv, ReadConfig, Loaded, Decrypts,
     TypeOK, IVs, Versions, Files, Garbage
<1>2. Alone' /\ KeyHeld' /\ Quiet'
  BY DEF IInv, ReadConfig, Loaded, Decrypts, TypeOK, Alone, KeyHeld, Quiet
<1>3. CipherAgrees' /\ LengthKnown'
  BY DEF IInv, ReadConfig, Loaded, Decrypts, TypeOK, Alone, KeyHeld,
     CipherAgrees, LengthKnown
<1>4. DiskIsWhole'
  BY DEF IInv, ReadConfig, Loaded, Decrypts, TypeOK, Quiet, DiskIsWhole, Whole
<1>5. LoadGivesSaved'
  <2> SUFFICES ASSUME NEW u \in Threads, pc'[u] = "put", sure[u], saved = "intact",
                      configIV = ivFile, length' = {SizeOf(configFile)}
               PROVE  text'[u] = configFile.version
    BY DEF ReadConfig, LoadGivesSaved, SizeOf
  <2>1. CASE u = t
    <3>1. cipher[t] = [iv |-> configFile.iv, key |-> configFile.key]
      BY <2>1 DEF IInv, TypeOK, ReadConfig, CipherAgrees, DiskIsWhole, Whole
    <3>2. Decrypts(t)
      BY <3>1 DEF IInv, DiskIsWhole, Whole, Decrypts
    <3> QED BY <2>1, <3>2 DEF IInv, TypeOK, ReadConfig, Loaded
  <2>2. CASE u # t
    BY <2>2 DEF IInv, TypeOK, ReadConfig, LengthKnown, LoadGivesSaved
  <2> QED BY <2>1, <2>2
<1> QED BY <1>1, <1>2, <1>3, <1>4, <1>5 DEF IInv

\* At most the length is cached, of a file nobody has read yet.
LEMMA ReadConfigFailsStep ==
  ASSUME IInv, NEW t \in Threads, ReadConfigFails(t)
  PROVE  IInv'
<1>1. TypeOK'
  BY BoundsAssumption, SizeIsNat DEF IInv, ReadConfigFails, TypeOK, IVs,
     Versions
<1>2. Alone' /\ KeyHeld' /\ Quiet'
  BY DEF IInv, ReadConfigFails, TypeOK, Alone, KeyHeld, Quiet
<1>3. CipherAgrees' /\ LengthKnown'
  BY DEF IInv, ReadConfigFails, TypeOK, Alone, KeyHeld, CipherAgrees,
     LengthKnown
<1>4. DiskIsWhole'
  BY DEF IInv, ReadConfigFails, TypeOK, Quiet, DiskIsWhole, Whole
<1>5. LoadGivesSaved'
  BY DEF IInv, ReadConfigFails, TypeOK, Alone, Quiet, CipherAgrees,
     LengthKnown, DiskIsWhole, Whole, LoadGivesSaved, SizeOf
<1> QED BY <1>1, <1>2, <1>3, <1>4, <1>5 DEF IInv

\* Only the running configuration changes.
LEMMA PutConfigStep ==
  ASSUME IInv, NEW t \in Threads, PutConfig(t)
  PROVE  IInv'
<1>1. TypeOK'
  BY BoundsAssumption DEF IInv, PutConfig, TypeOK, IVs, Versions
<1>2. Alone' /\ KeyHeld' /\ Quiet'
  BY DEF IInv, PutConfig, TypeOK, Alone, KeyHeld, Quiet
<1>3. CipherAgrees' /\ LengthKnown'
  BY DEF IInv, PutConfig, TypeOK, Alone, KeyHeld, CipherAgrees, LengthKnown
<1>4. DiskIsWhole'
  BY DEF IInv, PutConfig, TypeOK, Quiet, DiskIsWhole, Whole
<1>5. LoadGivesSaved'
  BY DEF IInv, PutConfig, TypeOK, Alone, Quiet, CipherAgrees, LengthKnown,
     DiskIsWhole, Whole, LoadGivesSaved, SizeOf
<1> QED BY <1>1, <1>2, <1>3, <1>4, <1>5 DEF IInv

\* Only the running configuration changes.
LEMMA ChangeStep ==
  ASSUME IInv, Change
  PROVE  IInv'
<1>1. TypeOK'
  BY BoundsAssumption DEF IInv, Change, TypeOK, IVs, Versions
<1>2. Alone' /\ KeyHeld' /\ Quiet'
  BY DEF IInv, Change, TypeOK, Alone, KeyHeld, Quiet
<1>3. CipherAgrees' /\ LengthKnown'
  BY DEF IInv, Change, TypeOK, Alone, KeyHeld, CipherAgrees, LengthKnown
<1>4. DiskIsWhole'
  BY DEF IInv, Change, TypeOK, Quiet, DiskIsWhole, Whole
<1>5. LoadGivesSaved'
  BY DEF IInv, Change, TypeOK, Alone, Quiet, CipherAgrees, LengthKnown,
     DiskIsWhole, Whole, LoadGivesSaved, SizeOf
<1> QED BY <1>1, <1>2, <1>3, <1>4, <1>5 DEF IInv

\* The key read is the one in the store.
LEMMA GetConfigKeyStep ==
  ASSUME IInv, GetConfigKey
  PROVE  IInv'
<1>1. TypeOK'
  BY BoundsAssumption DEF IInv, GetConfigKey, TypeOK, IVs, Versions
<1>2. Alone' /\ KeyHeld' /\ Quiet'
  BY DEF IInv, GetConfigKey, TypeOK, Alone, KeyHeld, Quiet
<1>3. CipherAgrees' /\ LengthKnown'
  BY DEF IInv, GetConfigKey, TypeOK, Alone, KeyHeld, CipherAgrees, LengthKnown
<1>4. DiskIsWhole'
  BY DEF IInv, GetConfigKey, TypeOK, Quiet, DiskIsWhole, Whole
<1>5. LoadGivesSaved'
  BY DEF IInv, GetConfigKey, TypeOK, Alone, Quiet, CipherAgrees, LengthKnown,
     DiskIsWhole, Whole, LoadGivesSaved, SizeOf
<1> QED BY <1>1, <1>2, <1>3, <1>4, <1>5 DEF IInv

\* Every thread is gone; the disk stays.
LEMMA RestartStep ==
  ASSUME IInv, Restart
  PROVE  IInv'
<1>1. TypeOK'
  BY BoundsAssumption DEF IInv, Restart, IVRead, TypeOK, IVs, Versions,
     NoFile, Empty, Zeros, Default
<1>2. Alone' /\ KeyHeld' /\ Quiet'
  BY DEF IInv, Restart, IVRead, TypeOK, Alone, KeyHeld, Quiet
<1>3. CipherAgrees' /\ LengthKnown'
  BY DEF IInv, Restart, IVRead, TypeOK, Alone, KeyHeld, CipherAgrees,
     LengthKnown
<1>4. DiskIsWhole'
  BY DEF IInv, Restart, IVRead, TypeOK, Quiet, DiskIsWhole, Whole
<1>5. LoadGivesSaved'
  BY DEF IInv, Restart, IVRead, TypeOK, Alone, Quiet, CipherAgrees,
     LengthKnown, DiskIsWhole, Whole, LoadGivesSaved, SizeOf
<1> QED BY <1>1, <1>2, <1>3, <1>4, <1>5 DEF IInv

-----------------------------------------------------------------------------
\* The invariant is inductive: one case per action, and stuttering.
LEMMA StepIInv == IInv /\ [Next]_vars => IInv'
<1> SUFFICES ASSUME IInv, [Next]_vars PROVE IInv'
  OBVIOUS
<1>1. ASSUME NEW t \in Threads, BeginSave(t) PROVE IInv'
  BY <1>1, BeginSaveStep
<1>2. ASSUME NEW t \in Threads, InitFails(t) PROVE IInv'
  BY <1>2, InitFailsStep
<1>3. ASSUME NEW t \in Threads, NewKey(t) PROVE IInv'
  BY <1>3, NewKeyStep
<1>4. ASSUME NEW t \in Threads, NewKeyFails(t) PROVE IInv'
  BY <1>4, NewKeyFailsStep
<1>5. ASSUME NEW t \in Threads, InitCipher(t) PROVE IInv'
  BY <1>5, InitCipherStep
<1>6. ASSUME NEW t \in Threads, OpenIV(t) PROVE IInv'
  BY <1>6, OpenIVStep
<1>7. ASSUME NEW t \in Threads, OpenIVFails(t) PROVE IInv'
  BY <1>7, OpenIVFailsStep
<1>8. ASSUME NEW t \in Threads, WriteIV(t) PROVE IInv'
  BY <1>8, WriteIVStep
<1>9. ASSUME NEW t \in Threads, WriteIVFails(t) PROVE IInv'
  BY <1>9, WriteIVFailsStep
<1>10. ASSUME NEW t \in Threads, GetConfig(t) PROVE IInv'
  BY <1>10, GetConfigStep
<1>11. ASSUME NEW t \in Threads, OpenConfig(t) PROVE IInv'
  BY <1>11, OpenConfigStep
<1>12. ASSUME NEW t \in Threads, OpenConfigFails(t) PROVE IInv'
  BY <1>12, OpenConfigFailsStep
<1>13. ASSUME NEW t \in Threads, WriteConfig(t) PROVE IInv'
  BY <1>13, WriteConfigStep
<1>14. ASSUME NEW t \in Threads, WriteConfigFails(t) PROVE IInv'
  BY <1>14, WriteConfigFailsStep
<1>15. ASSUME NEW t \in Threads, BeginLoad(t) PROVE IInv'
  BY <1>15, BeginLoadStep
<1>16. ASSUME NEW t \in Threads, ReadConfig(t) PROVE IInv'
  BY <1>16, ReadConfigStep
<1>17. ASSUME NEW t \in Threads, ReadConfigFails(t) PROVE IInv'
  BY <1>17, ReadConfigFailsStep
<1>18. ASSUME NEW t \in Threads, PutConfig(t) PROVE IInv'
  BY <1>18, PutConfigStep
<1>19. CASE Change
  BY <1>19, ChangeStep
<1>20. CASE GetConfigKey
  BY <1>20, GetConfigKeyStep
<1>21. CASE Restart
  BY <1>21, RestartStep
<1>22. CASE UNCHANGED vars
  BY <1>22 DEF vars, IInv, TypeOK, Alone, KeyHeld, Quiet, CipherAgrees, LengthKnown,
     DiskIsWhole, Whole, LoadGivesSaved, SizeOf
<1> QED
  BY <1>1, <1>2, <1>3, <1>4, <1>5, <1>6, <1>7, <1>8,
     <1>9, <1>10, <1>11, <1>12, <1>13, <1>14, <1>15, <1>16,
     <1>17, <1>18, <1>19, <1>20, <1>21, <1>22
     DEF Next, Save, Load

(* Type correctness, for every number of threads and every bound.          *)
THEOREM ConfigStoreTypeOK == Spec => []TypeOK
<1>1. IInv => TypeOK
  BY DEF IInv
<1> QED BY InitIInv, StepIInv, <1>1, PTL DEF Spec

(* A save without company leaves the two files and the key of the store in *)
(* agreement, whatever was on the disk before and whenever the process is  *)
(* killed afterwards.                                                      *)
THEOREM ConfigStoreDiskIsWhole == Spec => []DiskIsWhole
<1>1. IInv => DiskIsWhole
  BY DEF IInv
<1> QED BY InitIInv, StepIInv, <1>1, PTL DEF Spec

(* What loadConfigFile puts into the stack from such a disk is the version *)
(* saved.                                                                  *)
THEOREM ConfigStoreLoadGivesSaved == Spec => []LoadGivesSaved
<1>1. IInv => LoadGivesSaved
  BY DEF IInv
<1> QED BY InitIInv, StepIInv, <1>1, PTL DEF Spec
=============================================================================
