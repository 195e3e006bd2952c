----------------------------- MODULE SaveClaims -----------------------------
(* session_store/save_claim.rs: the order of the writes to one path.         *)
(*                                                                           *)
(* A caller mints a claim on the UI thread, in call order, and hands the     *)
(* write to a background executor, which runs the writes in any order. Each  *)
(* path (a session directory, or a parameter history file) has the number of *)
(* claims minted for it and the newest one spent. A claim is spent once: by  *)
(* a write, which is skipped when a newer claim has been spent before it, or *)
(* as a fence, which writes nothing. IO_LOCK is held for the whole of a      *)
(* write, so a write is one step. Nothing is kept across a restart but the   *)
(* file itself.                                                              *)
EXTENDS Naturals

CONSTANTS Dirs,        \* the paths claims are minted for
          MaxClaims    \* bound: claims minted for one path in one process

ASSUME MaxClaimsAssumption == MaxClaims \in Nat

VARIABLES minted,      \* DirState.minted: path -> claims minted
          written,     \* DirState.written: path -> newest claim spent
          claims,      \* the claims in background tasks, not yet spent
          disk         \* path -> the claim whose write is on disk, 0 for none

vars == <<minted, written, claims, disk>>

Claim == [dir : Dirs, value : Nat \ {0}]

TypeOK == /\ minted \in [Dirs -> Nat]
          /\ written \in [Dirs -> Nat]
          /\ disk \in [Dirs -> Nat]
          /\ claims \subseteq Claim

Init == /\ minted = [d \in Dirs |-> 0]
        /\ written = [d \in Dirs |-> 0]
        /\ disk = [d \in Dirs |-> 0]
        /\ claims = {}

(* Definitions named Mut... are faulty variants of the definition they       *)
(* precede, for checking that the properties can fail.                       *)

Mint(d) ==
  /\ minted[d] < MaxClaims
  /\ minted' = [minted EXCEPT ![d] = @ + 1]
  /\ claims' = claims \cup {[dir |-> d, value |-> minted[d] + 1]}
  /\ UNCHANGED <<written, disk>>

\* No claim is ever too old.
MutSuperseded(c) == FALSE

\* A claim older than the newest one spent.
Superseded(c) == c.value < written[c.dir]

\* write_if_current, refused: a newer claim already landed.
WriteRefused(c) ==
  /\ Superseded(c)
  /\ claims' = claims \ {c}
  /\ UNCHANGED <<minted, written, disk>>

\* write_if_current: the mark is raised before the write runs, and stays
\* raised when the write fails.
WriteIfCurrent(c) ==
  /\ ~ Superseded(c)
  /\ written' = [written EXCEPT ![c.dir] = c.value]
  /\ \/ disk' = [disk EXCEPT ![c.dir] = c.value]
     \/ UNCHANGED disk
  /\ claims' = claims \ {c}
  /\ UNCHANGED minted

\* record_written: a fence.
RecordWritten(c) ==
  /\ written' = [written EXCEPT ![c.dir] = IF @ > c.value THEN @ ELSE c.value]
  /\ claims' = claims \ {c}
  /\ UNCHANGED <<minted, disk>>

\* The process ends with writes pending; the next one counts from 0.
Restart == /\ minted' = [d \in Dirs |-> 0]
           /\ written' = [d \in Dirs |-> 0]
           /\ disk' = [d \in Dirs |-> 0]
           /\ claims' = {}

Next == \/ \E d \in Dirs : Mint(d)
        \/ \E c \in claims : WriteRefused(c) \/ WriteIfCurrent(c) \/ RecordWritten(c)
        \/ Restart

Spec == Init /\ [][Next]_vars

-----------------------------------------------------------------------------

(* A claim still pending is not the one recorded: each is spent once, so the *)
(* write a claim runs is strictly newer than everything before it.           *)
PendingIsUnspent ==
  \A c \in claims : /\ c.value <= minted[c.dir]
                    /\ c.value # written[c.dir]

(* What is on disk is no newer than the mark, and the mark no newer than the *)
(* last claim: a failed write or a fence never lets an older write back in.  *)
MarkCoversDisk ==
  \A d \in Dirs : /\ disk[d] <= written[d]
                  /\ written[d] <= minted[d]

(* Every claim is one snapshot formed, every write that runs shows it: the   *)
(* claims implement the promise.                                             *)
Promise == INSTANCE NewestWins WITH formed <- minted, shown <- disk
PromiseKept == Promise!Spec

=============================================================================
