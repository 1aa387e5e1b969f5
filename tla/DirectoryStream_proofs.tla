----------------------- MODULE DirectoryStream_proofs -----------------------
(***************************************************************************)
(* Proofs about DirectoryStream, for every directory and every Batch: its  *)
(* types, FreshIsComplete, FailureIsReported, HandleReleased and           *)
(* ListingsGrow. The invariant behind them says, for each step of the      *)
(* search thread, how far the queue has come, and how much of the stream   *)
(* the consumer has taken down by each step of close().                    *)
(***************************************************************************)
EXTENDS DirectoryStream, SequenceTheorems, TLAPS

Done == {"fresh", "close", "last", "leave", "finished"}

\* close() takes down the task, the queue and the field of the task, in this order.
TakenDown == /\ closing = 0 => task # "cancelled"
             /\ closing < 3 => hasQueue
             /\ closing < 4 => fileTask

\* An entry just found is the last one delivered, and is not queued yet.
EntryHeld == IF pc \in {"check", "offer"} THEN file = pos /\ Visible(pos) /\ unseen < pos
             ELSE unseen <= pos

\* While nobody closes the stream, the queue holds what has been found.
QueueFollows ==
  closing = 0 => Holds(IF pc \in {"check", "offer"} THEN pos - 1 ELSE pos)

\* The search says FRESH when it has come to the end, or has failed.
SearchEnds ==
  /\ failed = "next" => pc \in Done
  /\ closing = 0 /\ pc \in Done /\ thrown = "none" /\ failed # "next" =>
       pos = Len(sought)
  /\ state = "FRESH" => pc \in Done

\* The first findFile settles what the search goes through.
SoughtFollows ==
  /\ pc \in {"started", "ask"} =>
       sought = <<>> /\ queue = <<>> /\ listing.files = <<>> /\ failed = "none"
  /\ failed = "attributes" => Len(sought) = 1
  /\ closing = 0 /\ pc \notin {"started", "ask"} /\ failed # "attributes" =>
       sought = entries

\* The FutureTask knows how findFiles has ended.
TaskFollows ==
  /\ closing = 0 /\ pc # "finished" => task = "new"
  /\ closing = 0 /\ pc = "finished" => (task = "failed" <=> thrown # "none")
  /\ task = "failed" => pc = "finished" /\ thrown # "none"

\* What has been thrown, and by whom.
ThrownBy ==
  /\ thrown \in Exceptions => lastError
  /\ thrown = "NullPointerException" => closing >= 3 /\ pc \in {"leave", "finished"}

\* An open handle has delivered an entry, and is closed before the end unless
\* a null field ends the search.
HandleFollows ==
  /\ pc \in {"started", "ask", "last"} => handle = "invalid"
  /\ pc \in {"find", "check", "offer", "counted"} /\ handle = "open" => pos > 0
  /\ pc \in {"leave", "finished"} => handle = "invalid" \/ thrown = "NullPointerException"

\* A listing shown is a part of the queue, until the search fails.
ListingFollows ==
  /\ listing.kind \in Exceptions => task = "failed"
  /\ closing = 0 => IsPrefix(listing.files, queue)

IInv == /\ TypeOK /\ TakenDown /\ EntryHeld /\ QueueFollows /\ SearchEnds /\ SoughtFollows
        /\ TaskFollows /\ ThrownBy /\ HandleFollows /\ ListingFollows

\* The abbreviations every step below needs.
USE DEF Goto, Done, search, shared, consumer

-----------------------------------------------------------------------------
(* A prefix is a shorter sequence that agrees as far as it goes.           *)
LEMMA PrefixMeans ==
  ASSUME NEW S, NEW s \in Seq(S), NEW t \in Seq(S)
  PROVE  IsPrefix(s, t) <=> Len(s) <= Len(t) /\ \A j \in 1 .. Len(s) : s[j] = t[j]
<1>1. SubSeq(s, 1, Len(s)) = s
  BY SubSeqFull
<1>2. ASSUME Len(s) <= Len(t)
      PROVE  /\ SubSeq(t, 1, Len(s)) \in Seq(S) /\ Len(SubSeq(t, 1, Len(s))) = Len(s)
             /\ \A j \in 1 .. Len(s) : SubSeq(t, 1, Len(s))[j] = t[j]
  <2>1. Len(s) \in Nat /\ \A j \in 1 .. Len(s) : t[j] \in S
    BY <1>2
  <2> QED BY <2>1, SubSeqProperties
<1>3. ASSUME Len(s) <= Len(t), \A j \in 1 .. Len(s) : s[j] = t[j]
      PROVE  s = SubSeq(t, 1, Len(s))
  <2> DEFINE u == SubSeq(t, 1, Len(s))
  <2>1. u \in Seq(S) /\ Len(u) = Len(s) /\ \A j \in 1 .. Len(s) : s[j] = u[j]
    BY <1>2, <1>3
  <2> HIDE DEF u
  <2>2. s = u
    BY <2>1, SeqEqual
  <2> QED BY <2>2 DEF u
<1> QED BY <1>1, <1>2, <1>3 DEF IsPrefix

(* What Append does to the queue.                                          *)
LEMMA OfferedQueue ==
  ASSUME TypeOK, NEW k \in 1 .. Len(sought), queue' = Append(queue, k)
  PROVE  /\ queue' \in Seq(1 .. Len(sought)) /\ Len(queue') = Len(queue) + 1
         /\ Len(queue) \in Nat
         /\ queue'[Len(queue')] = k /\ \A a \in 1 .. Len(queue) : queue'[a] = queue[a]
BY AppendProperties DEF TypeOK

(* The new entry is the last of those queued.                              *)
LEMMA OfferHolds ==
  ASSUME TypeOK, NEW k \in 1 .. Len(sought), queue' = Append(queue, k), sought' = sought,
         Visible(k), Holds(k - 1)
  PROVE  Holds(k)'
<1>1. /\ Len(queue') = Len(queue) + 1 /\ Len(queue) \in Nat
      /\ queue'[Len(queue')] = k /\ \A a \in 1 .. Len(queue) : queue'[a] = queue[a]
  BY OfferedQueue
<1>2. \A a \in 1 .. Len(queue) : queue[a] \in 1 .. Len(sought) /\ queue[a] < k
  <2>1. \A a \in 1 .. Len(queue) : queue[a] \in 1 .. Len(sought)
    BY DEF TypeOK
  <2> QED BY <2>1 DEF Holds
<1>3. ASSUME NEW a \in 1 .. Len(queue'), NEW b \in 1 .. Len(queue'), a < b
      PROVE  queue'[a] < queue'[b]
  <2>1. a \in 1 .. Len(queue) /\ (b \in 1 .. Len(queue) \/ b = Len(queue'))
    BY <1>1, <1>3
  <2>2. CASE b \in 1 .. Len(queue)
    <3>1. queue[a] < queue[b]
      BY <1>3, <2>1, <2>2 DEF Holds
    <3> QED BY <1>1, <2>1, <2>2, <3>1
  <2>3. CASE b = Len(queue')
    BY <1>1, <1>2, <2>1, <2>3
  <2> QED BY <2>1, <2>2, <2>3
<1>4. ASSUME NEW j \in 1 .. Len(sought)
      PROVE  (\E a \in 1 .. Len(queue') : queue'[a] = j) <=> j <= k /\ Visible(j)
  <2>1. (\E a \in 1 .. Len(queue') : queue'[a] = j) <=>
          j = k \/ \E a \in 1 .. Len(queue) : queue[a] = j
    BY <1>1
  <2>2. (\E a \in 1 .. Len(queue) : queue[a] = j) <=> j <= k - 1 /\ Visible(j)
    BY DEF Holds
  <2> QED BY <2>1, <2>2
<1> QED BY <1>3, <1>4 DEF Holds, Visible

-----------------------------------------------------------------------------
(* The search has not begun, and nothing is queued.                        *)
LEMMA InitIInv == Init => IInv
<1> SUFFICES ASSUME Init PROVE IInv
  OBVIOUS
<1>1. sought \in Seq({"file", "hidden"}) /\ Len(sought) = 0
  BY EmptySeq DEF Init
<1>2. TypeOK
  <2>1. <<>> \in Seq(1 .. Len(sought))
    BY EmptySeq
  <2>2. listing \in [kind : Exceptions \cup {"none", "array"}, files : Seq(1 .. Len(sought))]
    BY <2>1 DEF Init
  <2>3. pos \in 0 .. Len(sought) /\ file \in 0 .. Len(sought) /\ unseen \in 0 .. Len(sought)
        /\ count \in 0 .. Batch /\ closing \in 0 .. 4
    BY <1>1, BatchAssumption DEF Init
  <2> QED BY <1>1, <2>1, <2>2, <2>3 DEF Init, TypeOK
<1>3. Holds(0)
  BY <1>1 DEF Init, Holds
<1>4. IsPrefix(<<>>, <<>>)
  <2>1. <<>> \in Seq(Nat) /\ Len(<<>>) = 0
    BY EmptySeq
  <2> QED BY <2>1 DEF IsPrefix
<1> QED
  BY <1>2, <1>3, <1>4 DEF Init, IInv, TakenDown, EntryHeld, QueueFollows, SearchEnds,
     SoughtFollows, TaskFollows, ThrownBy, HandleFollows, ListingFollows, Exceptions

-----------------------------------------------------------------------------
(* A task cancelled before it runs ends without a search.                  *)
LEMMA RunStep == ASSUME IInv, Run PROVE IInv'
<1>1. TypeOK'
  BY BatchAssumption DEF IInv, TypeOK, EntryHeld, Run
<1>2. TakenDown' /\ TaskFollows' /\ ThrownBy' /\ HandleFollows'
  BY DEF IInv, TypeOK, TakenDown, TaskFollows, ThrownBy, HandleFollows, Exceptions, Run
<1>3. EntryHeld' /\ SearchEnds' /\ SoughtFollows'
  BY DEF IInv, TypeOK, EntryHeld, SearchEnds, SoughtFollows, TakenDown, TaskFollows, Visible, Run
<1>4. QueueFollows'
  BY DEF IInv, QueueFollows, EntryHeld, TakenDown, SearchEnds, SoughtFollows, Holds, Visible, Run
<1>5. ListingFollows'
  BY DEF IInv, TaskFollows, ListingFollows, Run
<1> QED BY <1>1, <1>2, <1>3, <1>4, <1>5 DEF IInv

(* Nothing is queued yet, whatever the search is going to go through.      *)
LEMMA AskStep == ASSUME IInv, Ask PROVE IInv'
<1>1. /\ sought' \in Seq({"file", "hidden"}) /\ Len(sought') \in Nat
      /\ failed' = "attributes" => Len(sought') = 1
      /\ failed' # "attributes" => sought' = entries
  <2>1. CASE sought' = entries /\ UNCHANGED failed
    BY <2>1, DirectoriesAssumption, LenProperties DEF Ask, IInv, TypeOK, SoughtFollows
  <2>2. ASSUME NEW e \in {"file", "hidden"}, sought' = <<e>>, failed' = "attributes"
        PROVE  sought' \in Seq({"file", "hidden"}) /\ Len(sought') = 1
    BY <2>2
  <2> QED BY <2>1, <2>2 DEF Ask
<1>2. /\ pos = 0 /\ file = 0 /\ unseen = 0 /\ queue = <<>> /\ listing.files = <<>>
      /\ failed' \in {"none", "attributes"}
  BY EmptySeq DEF Ask, IInv, TypeOK, SoughtFollows
<1>3. TypeOK'
  <2>1. queue \in Seq(1 .. Len(sought')) /\ listing.files \in Seq(1 .. Len(sought'))
    BY <1>2, EmptySeq
  <2>2. listing \in [kind : Exceptions \cup {"none", "array"}, files : Seq(1 .. Len(sought'))]
    BY <2>1 DEF IInv, TypeOK
  <2> QED BY <1>1, <1>2, <2>1, <2>2 DEF Ask, IInv, TypeOK
<1>4. TakenDown' /\ TaskFollows' /\ ThrownBy' /\ HandleFollows' /\ ListingFollows'
  BY DEF IInv, TypeOK, TakenDown, TaskFollows, ThrownBy, HandleFollows, ListingFollows, Exceptions,
     Ask
<1>5. EntryHeld' /\ SearchEnds' /\ SoughtFollows'
  BY <1>1, <1>2 DEF IInv, EntryHeld, SearchEnds, SoughtFollows, Ask
<1>6. QueueFollows'
  <2>1. Holds(0)'
    BY <1>1, <1>2 DEF Holds, Ask
  <2> QED BY <1>2, <2>1 DEF QueueFollows, Ask
<1> QED BY <1>3, <1>4, <1>5, <1>6 DEF IInv

(* The error is recorded before the search says FRESH.                     *)
LEMMA FindFirstFailsStep == ASSUME IInv, FindFirstFails PROVE IInv'
<1>1. TypeOK'
  <2>1. thrown' \in Exceptions /\ lastError' \in BOOLEAN /\ unseen \in 0 .. Len(sought)
    BY DEF FindFirstFails, RecordError, IInv, TypeOK
  <2> QED BY <2>1 DEF IInv, TypeOK, FindFirstFails, Exceptions
<1>2. TakenDown' /\ TaskFollows' /\ ThrownBy' /\ HandleFollows'
  <2>1. thrown' \in Exceptions /\ lastError'
    BY DEF FindFirstFails, RecordError
  <2> QED BY <2>1 DEF IInv, TypeOK, TakenDown, TaskFollows, ThrownBy, HandleFollows, Exceptions,
       FindFirstFails
<1>3. EntryHeld' /\ SearchEnds' /\ SoughtFollows'
  <2>1. thrown' # "none"
    BY DEF FindFirstFails, Exceptions
  <2> QED BY <2>1 DEF IInv, EntryHeld, SearchEnds, SoughtFollows, FindFirstFails
<1>4. QueueFollows'
  BY DEF IInv, QueueFollows, EntryHeld, TakenDown, SearchEnds, SoughtFollows, Holds, Visible, FindFirstFails
<1>5. ListingFollows'
  BY DEF IInv, TaskFollows, ListingFollows, FindFirstFails
<1> QED BY <1>1, <1>2, <1>3, <1>4, <1>5 DEF IInv

(* What was passed over is hidden: the queue lags by the entry found.      *)
LEMMA FindEntryStep == ASSUME IInv, FindEntry PROVE IInv'
<1>1. TypeOK'
  BY BatchAssumption DEF IInv, TypeOK, EntryHeld, FindEntry
<1>2. TakenDown' /\ TaskFollows' /\ ThrownBy' /\ HandleFollows'
  BY DEF IInv, TypeOK, TakenDown, TaskFollows, ThrownBy, HandleFollows, Exceptions, FindEntry
<1>3. EntryHeld' /\ SearchEnds' /\ SoughtFollows'
  <2>1. PICK k \in 1 .. Len(sought) : Found(k) /\ pos' = k /\ file' = k
    BY DEF FindEntry
  <2>2. Visible(k)' /\ unseen < k
    BY <2>1 DEF FindEntry, Found, Visible, IInv, TypeOK, EntryHeld
  <2> QED BY <2>1, <2>2 DEF IInv, EntryHeld, SearchEnds, SoughtFollows, TypeOK, FindEntry
<1>4. QueueFollows'
  <2> SUFFICES ASSUME closing = 0 PROVE Holds(pos - 1)'
    BY DEF QueueFollows, FindEntry
  <2>1. PICK k \in 1 .. Len(sought) : Found(k) /\ pos' = k
    BY DEF FindEntry
  <2>2. Holds(pos) /\ pos \in Nat
    BY DEF IInv, QueueFollows, FindEntry, TypeOK, SearchEnds
  <2>3. \A j \in 1 .. Len(sought) : Visible(j) => (j <= pos <=> j <= k - 1)
    BY <2>1, <2>2 DEF Found
  <2>4. Holds(k - 1)
    BY <2>2, <2>3 DEF Holds
  <2> QED BY <2>1, <2>4 DEF Holds, Visible, FindEntry
<1>5. ListingFollows'
  BY DEF IInv, TaskFollows, ListingFollows, FindEntry
<1> QED BY <1>1, <1>2, <1>3, <1>4, <1>5 DEF IInv

(* Nothing visible is left, unless FindNext has failed: then the queue     *)
(* holds what was delivered before.                                        *)
LEMMA FindNothingStep == ASSUME IInv, FindNothing PROVE IInv'
<1> DEFINE Left == \E k \in pos + 1 .. Len(sought) : Visible(k)
<1>1. /\ Len(sought) \in Nat /\ pos \in 0 .. Len(sought)
      /\ IF Left THEN failed' = "next" /\ pos' = pos
         ELSE failed' = failed /\ pos' = Len(sought)
  BY DEF FindNothing, IInv, TypeOK
<1>2. Left => failed # "attributes"
  <2> SUFFICES ASSUME failed = "attributes", NEW k \in pos + 1 .. Len(sought), Visible(k)
               PROVE  FALSE
    OBVIOUS
  <2>1. k = 1 /\ pos = 0
    <3>1. Len(sought) = 1
      BY DEF IInv, SoughtFollows
    <3> QED BY <1>1, <3>1
  <2>2. handle = "open" \/ ~Visible(1)
    BY DEF FindNothing
  <2> QED BY <2>1, <2>2 DEF FindNothing, IInv, HandleFollows
<1> HIDE DEF Left
<1>3. pos' \in 0 .. Len(sought) /\ unseen <= pos /\ unseen <= pos' /\ pos <= pos'
  BY <1>1 DEF IInv, TypeOK, EntryHeld, FindNothing
<1>4. TypeOK'
  BY <1>1, <1>3 DEF IInv, TypeOK, FindNothing
<1>5. TakenDown' /\ TaskFollows' /\ ThrownBy' /\ HandleFollows'
  BY DEF IInv, TypeOK, TakenDown, TaskFollows, ThrownBy, HandleFollows, Exceptions, FindNothing
<1>6. EntryHeld' /\ SearchEnds' /\ SoughtFollows'
  BY <1>1, <1>2, <1>3 DEF IInv, EntryHeld, SearchEnds, SoughtFollows, FindNothing
<1>7. QueueFollows'
  <2> SUFFICES ASSUME closing = 0 PROVE Holds(pos)'
    BY DEF QueueFollows, FindNothing
  <2>1. Holds(pos)
    BY DEF IInv, QueueFollows, FindNothing
  <2>2. Holds(pos')
    <3>1. CASE Left
      BY <1>1, <2>1, <3>1
    <3>2. CASE ~Left
      <4>1. \A j \in 1 .. Len(sought) : Visible(j) => j <= pos
        BY <1>1, <3>2 DEF Left
      <4> QED BY <1>1, <2>1, <3>2, <4>1 DEF Holds
    <3> QED BY <3>1, <3>2
  <2> QED BY <2>2 DEF Holds, Visible, FindNothing
<1>8. ListingFollows'
  BY DEF IInv, TaskFollows, ListingFollows, FindNothing
<1> QED BY <1>4, <1>5, <1>6, <1>7, <1>8 DEF IInv

(* Only close() cancels the task.                                          *)
LEMMA CheckStep == ASSUME IInv, Check PROVE IInv'
<1>1. TypeOK'
  BY BatchAssumption DEF IInv, TypeOK, EntryHeld, Check
<1>2. TakenDown' /\ TaskFollows' /\ ThrownBy' /\ HandleFollows'
  BY DEF IInv, TypeOK, TakenDown, TaskFollows, ThrownBy, HandleFollows, Exceptions, Check
<1>3. EntryHeld' /\ SearchEnds' /\ SoughtFollows'
  BY DEF IInv, TypeOK, EntryHeld, SearchEnds, SoughtFollows, TakenDown, TaskFollows, Visible, Check
<1>4. QueueFollows'
  BY DEF IInv, QueueFollows, EntryHeld, TakenDown, SearchEnds, SoughtFollows, Holds, Visible, Check
<1>5. ListingFollows'
  BY DEF IInv, TaskFollows, ListingFollows, Check
<1> QED BY <1>1, <1>2, <1>3, <1>4, <1>5 DEF IInv

(* The field of the task is null only when close() is over.                *)
LEMMA CheckNullStep == ASSUME IInv, CheckNull PROVE IInv'
<1>1. TypeOK'
  BY BatchAssumption DEF IInv, TypeOK, EntryHeld, CheckNull, NullPointer
<1>2. TakenDown' /\ TaskFollows' /\ ThrownBy' /\ HandleFollows'
  BY DEF IInv, TypeOK, TakenDown, TaskFollows, ThrownBy, HandleFollows, Exceptions, CheckNull, NullPointer
<1>3. EntryHeld' /\ SearchEnds' /\ SoughtFollows'
  BY DEF IInv, TypeOK, EntryHeld, SearchEnds, SoughtFollows, TakenDown, TaskFollows, Visible, CheckNull, NullPointer
<1>4. QueueFollows'
  BY DEF IInv, QueueFollows, EntryHeld, TakenDown, SearchEnds, SoughtFollows, Holds, Visible, CheckNull, NullPointer
<1>5. ListingFollows'
  BY DEF IInv, TaskFollows, ListingFollows, CheckNull, NullPointer
<1> QED BY <1>1, <1>2, <1>3, <1>4, <1>5 DEF IInv

(* The queue has caught up with the search.                                *)
LEMMA OfferStep == ASSUME IInv, Offer PROVE IInv'
<1>1. TypeOK'
  <2>1. file \in 1 .. Len(sought) /\ unseen' \in 0 .. Len(sought)
    BY DEF IInv, TypeOK, EntryHeld, Offer
  <2>2. queue' \in Seq(1 .. Len(sought))
    BY <2>1, OfferedQueue DEF IInv, Offer, Offered
  <2> QED BY <2>1, <2>2 DEF IInv, TypeOK, Offer
<1>2. TakenDown' /\ TaskFollows' /\ ThrownBy' /\ HandleFollows'
  BY DEF IInv, TypeOK, TakenDown, TaskFollows, ThrownBy, HandleFollows, Exceptions, Offer
<1>3. EntryHeld' /\ SearchEnds' /\ SoughtFollows'
  BY DEF IInv, TypeOK, EntryHeld, SearchEnds, SoughtFollows, TakenDown, TaskFollows, Visible, Offer
<1>4. QueueFollows'
  <2> SUFFICES ASSUME closing = 0 PROVE Holds(pos)'
    BY DEF QueueFollows, Offer
  <2>1. file \in 1 .. Len(sought) /\ file = pos /\ Visible(file) /\ Holds(file - 1)
    BY DEF IInv, TypeOK, EntryHeld, QueueFollows, Offer
  <2>2. Holds(file)'
    <3>1. PICK k \in 1 .. Len(sought) : k = file
      BY <2>1
    <3>2. Holds(k)'
      BY <2>1, <3>1, OfferHolds DEF IInv, Offer, Offered
    <3> QED BY <3>1, <3>2 DEF Offer
  <2> QED BY <2>1, <2>2 DEF Offer
<1>5. ListingFollows'
  <2> SUFFICES ASSUME closing = 0 PROVE IsPrefix(listing.files, queue')
    BY DEF IInv, ListingFollows, Offer
  <2>1. /\ listing.files \in Seq(1 .. Len(sought)) /\ queue \in Seq(1 .. Len(sought))
        /\ file \in 1 .. Len(sought) /\ IsPrefix(listing.files, queue)
    BY DEF IInv, TypeOK, EntryHeld, ListingFollows, Offer
  <2>2. /\ queue' \in Seq(1 .. Len(sought)) /\ Len(queue') = Len(queue) + 1
        /\ Len(queue) \in Nat /\ \A a \in 1 .. Len(queue) : queue'[a] = queue[a]
    BY <2>1, OfferedQueue DEF IInv, Offer, Offered
  <2>3. /\ Len(listing.files) \in Nat /\ Len(listing.files) <= Len(queue)
        /\ \A a \in 1 .. Len(listing.files) : listing.files[a] = queue[a]
    BY <2>1, PrefixMeans
  <2>4. /\ Len(listing.files) <= Len(queue')
        /\ \A a \in 1 .. Len(listing.files) : listing.files[a] = queue'[a]
    BY <2>2, <2>3
  <2> QED BY <2>1, <2>2, <2>4, PrefixMeans
<1> QED BY <1>1, <1>2, <1>3, <1>4, <1>5 DEF IInv

(* The queue is null only while close() takes the stream down.             *)
LEMMA OfferNullStep == ASSUME IInv, OfferNull PROVE IInv'
<1>1. TypeOK'
  BY BatchAssumption DEF IInv, TypeOK, EntryHeld, OfferNull, NullPointer
<1>2. TakenDown' /\ TaskFollows' /\ ThrownBy' /\ HandleFollows'
  BY DEF IInv, TypeOK, TakenDown, TaskFollows, ThrownBy, HandleFollows, Exceptions, OfferNull, NullPointer
<1>3. EntryHeld' /\ SearchEnds' /\ SoughtFollows'
  BY DEF IInv, TypeOK, EntryHeld, SearchEnds, SoughtFollows, TakenDown, TaskFollows, Visible, OfferNull, NullPointer
<1>4. QueueFollows'
  BY DEF IInv, QueueFollows, EntryHeld, TakenDown, SearchEnds, SoughtFollows, Holds, Visible, OfferNull, NullPointer
<1>5. ListingFollows'
  BY DEF IInv, TaskFollows, ListingFollows, OfferNull, NullPointer
<1> QED BY <1>1, <1>2, <1>3, <1>4, <1>5 DEF IInv

(* The consumer has been told of all that is queued, or of no more.        *)
LEMMA CountStep == ASSUME IInv, Count PROVE IInv'
<1>1. TypeOK'
  <2>1. count' \in 0 .. Batch /\ unseen' \in 0 .. Len(sought)
    BY BatchAssumption DEF Count, Due, IInv, TypeOK
  <2> QED BY <2>1 DEF IInv, TypeOK, Count
<1>2. TakenDown' /\ TaskFollows' /\ ThrownBy' /\ HandleFollows'
  BY DEF IInv, TypeOK, TakenDown, TaskFollows, ThrownBy, HandleFollows, Exceptions, Count
<1>3. EntryHeld' /\ SearchEnds' /\ SoughtFollows'
  BY DEF IInv, TypeOK, EntryHeld, SearchEnds, SoughtFollows, TakenDown, TaskFollows, Visible, Count
<1>4. QueueFollows'
  BY DEF IInv, QueueFollows, EntryHeld, TakenDown, SearchEnds, SoughtFollows, Holds, Visible, Count
<1>5. ListingFollows'
  BY DEF IInv, TaskFollows, ListingFollows, Count
<1> QED BY <1>1, <1>2, <1>3, <1>4, <1>5 DEF IInv

(* FRESH is said when the last entry is queued, or the error recorded.     *)
LEMMA SetFreshStep == ASSUME IInv, SetFresh PROVE IInv'
<1>1. TypeOK'
  BY BatchAssumption DEF IInv, TypeOK, EntryHeld, SetFresh
<1>2. TakenDown' /\ TaskFollows' /\ ThrownBy' /\ HandleFollows'
  BY DEF IInv, TypeOK, TakenDown, TaskFollows, ThrownBy, HandleFollows, Exceptions, SetFresh
<1>3. EntryHeld' /\ SearchEnds' /\ SoughtFollows'
  BY DEF IInv, TypeOK, EntryHeld, SearchEnds, SoughtFollows, TakenDown, TaskFollows, Visible, SetFresh
<1>4. QueueFollows'
  BY DEF IInv, QueueFollows, EntryHeld, TakenDown, SearchEnds, SoughtFollows, Holds, Visible, SetFresh
<1>5. ListingFollows'
  BY DEF IInv, TaskFollows, ListingFollows, SetFresh
<1> QED BY <1>1, <1>2, <1>3, <1>4, <1>5 DEF IInv

(* The handle is closed.                                                   *)
LEMMA CloseDirectoryStep == ASSUME IInv, CloseDirectory PROVE IInv'
<1>1. TypeOK'
  BY DEF IInv, TypeOK, CloseDirectory, CloseHandle
<1>2. TakenDown' /\ TaskFollows' /\ ThrownBy' /\ HandleFollows'
  BY DEF IInv, TypeOK, TakenDown, TaskFollows, ThrownBy, HandleFollows, Exceptions,
     CloseDirectory, CloseHandle
<1>3. EntryHeld' /\ SearchEnds' /\ SoughtFollows'
  BY DEF IInv, TypeOK, EntryHeld, SearchEnds, SoughtFollows, TakenDown, TaskFollows, Visible, CloseDirectory
<1>4. QueueFollows'
  BY DEF IInv, QueueFollows, EntryHeld, TakenDown, SearchEnds, SoughtFollows, Holds, Visible, CloseDirectory
<1>5. ListingFollows'
  BY DEF IInv, TaskFollows, ListingFollows, CloseDirectory
<1> QED BY <1>1, <1>2, <1>3, <1>4, <1>5 DEF IInv

(* The consumer has been told of everything.                               *)
LEMMA NotifyLastStep == ASSUME IInv, NotifyLast PROVE IInv'
<1>1. TypeOK'
  <2>1. unseen' \in 0 .. Len(sought)
    BY DEF IInv, TypeOK, NotifyLast, Notify
  <2> QED BY <2>1 DEF IInv, TypeOK, NotifyLast
<1>2. TakenDown' /\ TaskFollows' /\ ThrownBy' /\ HandleFollows'
  BY DEF IInv, TypeOK, TakenDown, TaskFollows, ThrownBy, HandleFollows, Exceptions, NotifyLast
<1>3. EntryHeld' /\ SearchEnds' /\ SoughtFollows'
  BY DEF IInv, TypeOK, EntryHeld, SearchEnds, SoughtFollows, NotifyLast, Notify
<1>4. QueueFollows'
  BY DEF IInv, QueueFollows, EntryHeld, TakenDown, SearchEnds, SoughtFollows, Holds, Visible, NotifyLast
<1>5. ListingFollows'
  BY DEF IInv, TaskFollows, ListingFollows, NotifyLast
<1> QED BY <1>1, <1>2, <1>3, <1>4, <1>5 DEF IInv

(* The task is told how findFiles has ended.                               *)
LEMMA LeaveStep == ASSUME IInv, Leave PROVE IInv'
<1>1. TypeOK'
  BY BatchAssumption DEF IInv, TypeOK, EntryHeld, Leave
<1>2. TakenDown' /\ TaskFollows' /\ ThrownBy' /\ HandleFollows'
  BY DEF IInv, TypeOK, TakenDown, TaskFollows, ThrownBy, HandleFollows, Exceptions, Leave
<1>3. EntryHeld' /\ SearchEnds' /\ SoughtFollows'
  BY DEF IInv, TypeOK, EntryHeld, SearchEnds, SoughtFollows, TakenDown, TaskFollows, Visible, Leave
<1>4. QueueFollows'
  BY DEF IInv, QueueFollows, EntryHeld, TakenDown, SearchEnds, SoughtFollows, Holds, Visible, Leave
<1>5. ListingFollows'
  BY DEF IInv, TaskFollows, ListingFollows, Leave
<1> QED BY <1>1, <1>2, <1>3, <1>4, <1>5 DEF IInv

(* All that is queued is shown, or the exception of the search.            *)
LEMMA GetListingStep == ASSUME IInv, GetListing PROVE IInv'
<1>1. TypeOK'
  <2>1. <<>> \in Seq(1 .. Len(sought)) /\ queue \in Seq(1 .. Len(sought))
    BY EmptySeq DEF IInv, TypeOK
  <2>2. task = "failed" => thrown \in Exceptions
    BY DEF IInv, TypeOK, TaskFollows, ThrownBy, GetListing
  <2>3. listing' \in [kind : Exceptions \cup {"none", "array"}, files : Seq(1 .. Len(sought))]
    BY <2>1, <2>2 DEF GetListing
  <2> QED BY <2>3 DEF IInv, TypeOK, GetListing
<1>2. TakenDown' /\ TaskFollows' /\ ThrownBy' /\ HandleFollows'
  BY DEF IInv, TypeOK, TakenDown, TaskFollows, ThrownBy, HandleFollows, Exceptions, GetListing
<1>3. EntryHeld' /\ SearchEnds' /\ SoughtFollows'
  BY DEF IInv, TypeOK, EntryHeld, SearchEnds, SoughtFollows, TakenDown, TaskFollows, Visible, GetListing
<1>4. QueueFollows'
  BY DEF IInv, QueueFollows, EntryHeld, TakenDown, SearchEnds, SoughtFollows, Holds, Visible, GetListing
<1>5. ListingFollows'
  <2>1. /\ queue \in Seq(1 .. Len(sought)) /\ Len(queue) \in Nat
        /\ Len(<<>>) = 0 /\ SubSeq(<<>>, 1, 0) = <<>> /\ SubSeq(queue, 1, 0) = <<>>
    BY EmptySeq, SubSeqEmpty DEF IInv, TypeOK
  <2>2. IsPrefix(<<>>, queue) /\ IsPrefix(queue, queue)
    BY <2>1 DEF IsPrefix
  <2>3. CASE task = "failed"
    BY <2>2, <2>3 DEF GetListing, ListingFollows
  <2>4. CASE task # "failed"
    BY <2>2, <2>4 DEF GetListing, ListingFollows, Exceptions
  <2> QED BY <2>3, <2>4
<1> QED BY <1>1, <1>2, <1>3, <1>4, <1>5 DEF IInv

(* From here on nothing is asked of the stream.                            *)
LEMMA CloseCancelStep == ASSUME IInv, CloseCancel PROVE IInv'
<1>1. TypeOK'
  BY BatchAssumption DEF IInv, TypeOK, EntryHeld, CloseCancel
<1>2. TakenDown' /\ TaskFollows' /\ ThrownBy' /\ HandleFollows'
  BY DEF IInv, TypeOK, TakenDown, TaskFollows, ThrownBy, HandleFollows, Exceptions, CloseCancel
<1>3. EntryHeld' /\ SearchEnds' /\ SoughtFollows'
  BY DEF IInv, TypeOK, EntryHeld, SearchEnds, SoughtFollows, TakenDown, TaskFollows, Visible, CloseCancel
<1>4. QueueFollows'
  BY DEF IInv, QueueFollows, EntryHeld, TakenDown, SearchEnds, SoughtFollows, Holds, Visible, CloseCancel
<1>5. ListingFollows'
  BY DEF IInv, TaskFollows, ListingFollows, CloseCancel
<1> QED BY <1>1, <1>2, <1>3, <1>4, <1>5 DEF IInv

(* The queue of a stream being closed is of no concern.                    *)
LEMMA CloseClearStep == ASSUME IInv, CloseClear PROVE IInv'
<1>1. TypeOK'
  BY BatchAssumption DEF IInv, TypeOK, EntryHeld, CloseClear
<1>2. TakenDown' /\ TaskFollows' /\ ThrownBy' /\ HandleFollows'
  BY DEF IInv, TypeOK, TakenDown, TaskFollows, ThrownBy, HandleFollows, Exceptions, CloseClear
<1>3. EntryHeld' /\ SearchEnds' /\ SoughtFollows'
  BY DEF IInv, TypeOK, EntryHeld, SearchEnds, SoughtFollows, TakenDown, TaskFollows, Visible, CloseClear
<1>4. QueueFollows'
  BY DEF IInv, QueueFollows, EntryHeld, TakenDown, SearchEnds, SoughtFollows, Holds, Visible, CloseClear
<1>5. ListingFollows'
  BY DEF IInv, TaskFollows, ListingFollows, CloseClear
<1> QED BY <1>1, <1>2, <1>3, <1>4, <1>5 DEF IInv

(* The search may meet a null queue from here on.                          *)
LEMMA CloseQueueStep == ASSUME IInv, CloseQueue PROVE IInv'
<1>1. TypeOK'
  <2>1. hasQueue' \in BOOLEAN
    BY DEF CloseQueue
  <2>2. closing' \in 0 .. 4
    BY DEF CloseQueue
  <2> QED BY <2>1, <2>2 DEF IInv, TypeOK, CloseQueue
<1>2. TakenDown' /\ TaskFollows' /\ ThrownBy' /\ HandleFollows'
  BY DEF IInv, TypeOK, TakenDown, TaskFollows, ThrownBy, HandleFollows, Exceptions, CloseQueue
<1>3. EntryHeld' /\ SearchEnds' /\ SoughtFollows'
  BY DEF IInv, TypeOK, EntryHeld, SearchEnds, SoughtFollows, TakenDown, TaskFollows, Visible, CloseQueue
<1>4. QueueFollows'
  BY DEF IInv, QueueFollows, EntryHeld, TakenDown, SearchEnds, SoughtFollows, Holds, Visible, CloseQueue
<1>5. ListingFollows'
  BY DEF IInv, TaskFollows, ListingFollows, CloseQueue
<1> QED BY <1>1, <1>2, <1>3, <1>4, <1>5 DEF IInv

(* The search may meet a null task from here on.                           *)
LEMMA CloseTaskStep == ASSUME IInv, CloseTask PROVE IInv'
<1>1. TypeOK'
  <2>1. fileTask' \in BOOLEAN
    BY DEF CloseTask
  <2>2. closing' \in 0 .. 4
    BY DEF CloseTask
  <2> QED BY <2>1, <2>2 DEF IInv, TypeOK, CloseTask
<1>2. TakenDown' /\ TaskFollows' /\ ThrownBy' /\ HandleFollows'
  BY DEF IInv, TypeOK, TakenDown, TaskFollows, ThrownBy, HandleFollows, Exceptions, CloseTask
<1>3. EntryHeld' /\ SearchEnds' /\ SoughtFollows'
  BY DEF IInv, TypeOK, EntryHeld, SearchEnds, SoughtFollows, TakenDown, TaskFollows, Visible, CloseTask
<1>4. QueueFollows'
  BY DEF IInv, QueueFollows, EntryHeld, TakenDown, SearchEnds, SoughtFollows, Holds, Visible, CloseTask
<1>5. ListingFollows'
  BY DEF IInv, TaskFollows, ListingFollows, CloseTask
<1> QED BY <1>1, <1>2, <1>3, <1>4, <1>5 DEF IInv

-----------------------------------------------------------------------------
(* Every step of the search thread and of the consumer preserves it.       *)
THEOREM StepIInv == IInv /\ [Next]_vars => IInv'
<1> SUFFICES ASSUME IInv, [Next]_vars PROVE IInv'
  OBVIOUS
<1>1. CASE FindFiles
  BY <1>1, RunStep, AskStep, FindFirstFailsStep, FindEntryStep, FindNothingStep, CheckStep,
     CheckNullStep, OfferStep, OfferNullStep, CountStep, SetFreshStep,
     CloseDirectoryStep, NotifyLastStep, LeaveStep
  DEF FindFiles
<1>2. CASE GetListing
  BY <1>2, GetListingStep
<1>3. CASE Close
  BY <1>3, CloseCancelStep, CloseClearStep, CloseQueueStep, CloseTaskStep DEF Close
<1>4. CASE UNCHANGED vars
  <2>1. TypeOK' /\ TakenDown' /\ EntryHeld' /\ SearchEnds' /\ SoughtFollows'
    BY <1>4 DEF vars, IInv, TypeOK, TakenDown, EntryHeld, SearchEnds, SoughtFollows, Visible
  <2>2. QueueFollows'
    BY <1>4 DEF vars, IInv, QueueFollows, Holds, Visible
  <2>3. TaskFollows' /\ ThrownBy' /\ HandleFollows' /\ ListingFollows'
    BY <1>4 DEF vars, IInv, TaskFollows, ThrownBy, HandleFollows, ListingFollows
  <2> QED BY <2>1, <2>2, <2>3 DEF IInv
<1>5. CASE Over
  BY <1>4, <1>5 DEF Over
<1> QED BY <1>1, <1>2, <1>3, <1>4, <1>5 DEF Next

(* The inductive invariant holds throughout the life of a stream.          *)
LEMMA StreamInvariant == Spec => []IInv
BY InitIInv, StepIInv, PTL DEF Spec

(* Every state of a stream is well typed: the count never passes Batch and *)
(* only entries of the directory are queued or shown.                      *)
THEOREM StreamTypeOK == Spec => []TypeOK
<1>1. IInv => TypeOK
  BY DEF IInv
<1> QED BY <1>1, StreamInvariant, PTL

(* What a stream holds that says FRESH after a search nobody disturbed,    *)
(* whatever the directory: all of it that is to be shown, its first part   *)
(* when FindNext failed, or the path itself when nobody knew better.       *)
THEOREM StreamFreshIsComplete == Spec => []FreshIsComplete
<1>1. IInv => FreshIsComplete
  <2> SUFFICES ASSUME IInv, closing = 0, state = "FRESH", thrown = "none"
               PROVE  /\ IF failed = "attributes" THEN Len(sought) = 1 ELSE sought = entries
                      /\ Holds(IF failed = "next" THEN pos ELSE Len(sought))
    BY DEF FreshIsComplete
  <2>1. pc \in Done /\ (failed # "next" => pos = Len(sought))
    BY DEF IInv, SearchEnds
  <2>2. Holds(pos)
    BY <2>1 DEF IInv, QueueFollows
  <2>3. IF failed = "attributes" THEN Len(sought) = 1 ELSE sought = entries
    BY <2>1 DEF IInv, SoughtFollows
  <2> QED BY <2>1, <2>2, <2>3
<1> QED BY <1>1, StreamInvariant, PTL

(* A search that failed has its error in place before it says FRESH, and   *)
(* its exception waits for getListing when it is over.                     *)
THEOREM StreamFailureIsReported == Spec => []FailureIsReported
<1>1. IInv => FailureIsReported
  BY DEF IInv, FailureIsReported, ThrownBy, TaskFollows
<1> QED BY <1>1, StreamInvariant, PTL

(* A stream nobody closes leaves no search handle behind.                  *)
THEOREM StreamHandleReleased == Spec => []HandleReleased
<1>1. IInv => HandleReleased
  BY DEF IInv, HandleReleased, HandleFollows, ThrownBy
<1> QED BY <1>1, StreamInvariant, PTL

(* Successive listings only grow at the end, until the search fails.       *)
THEOREM StreamListingsGrow == Spec => ListingsGrow
<1> DEFINE Grows == listing'.kind = "array" =>
                      /\ listing.kind \in {"none", "array"}
                      /\ IsPrefix(listing.files, listing'.files)
<1>1. IInv /\ [Next]_vars => [Grows]_listing
  <2> SUFFICES ASSUME IInv, [Next]_vars, listing' # listing, listing'.kind = "array"
               PROVE  /\ listing.kind \in {"none", "array"}
                      /\ IsPrefix(listing.files, listing'.files)
    OBVIOUS
  <2>1. GetListing
    BY DEF Next, vars, FindFiles, Run, Ask, FindFirstFails, FindEntry, FindNothing, Check,
       CheckNull, NullPointer, Offer, OfferNull, Count, SetFresh, CloseDirectory,
       NotifyLast, Leave, Close, CloseCancel, CloseClear, CloseQueue, CloseTask, Over
  <2>2. task # "failed" /\ listing' = [kind |-> "array", files |-> queue]
    <3>1. task = "failed" => thrown \in Exceptions
      BY <2>1 DEF GetListing, IInv, TypeOK, TaskFollows, ThrownBy
    <3> QED BY <2>1, <3>1 DEF GetListing, Exceptions
  <2>3. listing.kind \in {"none", "array"}
    BY <2>2 DEF IInv, TypeOK, ListingFollows
  <2>4. IsPrefix(listing.files, queue)
    BY <2>1 DEF GetListing, IInv, ListingFollows
  <2> QED BY <2>2, <2>3, <2>4
<1> QED BY <1>1, StreamInvariant, PTL DEF Spec, ListingsGrow
=============================================================================
