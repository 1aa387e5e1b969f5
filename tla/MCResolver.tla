----------------------------- MODULE MCResolver -----------------------------
(* Resolver with two files that may or may not be of one document, and      *)
(* ResolverIO on one file. The locks, the directories and the transfers     *)
(* share no state but the threads, each of which a behaviour gives to one   *)
(* of them.                                                                 *)
EXTENDS Resolver, Integers, TLC

CONSTANTS Bytes, Lengths, Offsets, Half, MaxSize

VARIABLES work, contents, offset, ioPc, ioCall, got, ret, meant, cursor, due, strayed

ioVars == <<contents, offset, ioPc, ioCall, got, ret, meant, cursor, due, strayed>>

IO == INSTANCE ResolverIO WITH pc <- ioPc, call <- ioCall

ASSUME IOAssumption == IO!ResolverIOBounds

MCOffsets == {-1, 0, 1, 2, 5}

MCInit == Init /\ IO!Init /\ work \in {"locking", "listing", "transfer"}
MCNext ==
  \/ work = "locking" /\ Locking /\ UNCHANGED <<ioVars, work>>
  \/ work = "listing" /\ Listing /\ UNCHANGED <<ioVars, work>>
  \/ work = "transfer" /\ IO!Next /\ UNCHANGED <<vars, work>>
MCSpec == MCInit /\ [][MCNext]_<<vars, ioVars, work>>

(* Positioned and sequential transfers do not disturb each other:           *)
(* resolver_pread, resolver_pwrite and the rest, with positions that fit a  *)
(* jint and without calls that meet a seek half way, however short they     *)
(* come or fail.                                                            *)
IOLandsWhereAsked == IO!IOLandsWhereAsked

Interchangeable == Permutations(Threads) \cup Permutations(Files) \cup Permutations(Documents)
                     \cup Permutations(Dirs)
=============================================================================
