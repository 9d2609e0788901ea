---------------------------- MODULE OrderedCommit ----------------------------
(***************************************************************************)
(* What Stage1's ordered appender promises its callers, without saying     *)
(* how: every expected seq gets an outcome, outcomes never change, commits *)
(* follow the order of the seqs, and the results written downstream are    *)
(* the successful commits.  The stage may halt; what was committed stays.  *)
(***************************************************************************)
EXTENDS Integers, Sequences, FiniteSets

CONSTANTS Seqs, Outcomes

VARIABLES
  outcome,    \* the outcome of each seq, "OPEN" until there is one
  log,        \* the commits, in order
  written,    \* the seqs whose results were written downstream, in order
  halted

avars == <<outcome, log, written, halted>>

Open == "OPEN"
Committed == {log[i].seq : i \in 1..Len(log)}
Written   == {written[i] : i \in 1..Len(written)}

AInit ==
  /\ outcome = [s \in Seqs |-> Open]
  /\ log = <<>>
  /\ written = <<>>
  /\ halted = FALSE

(* Some open seqs get their outcome. *)
Decides ==
  /\ outcome' \in [Seqs -> Outcomes \cup {Open}]
  /\ \A s \in Seqs : outcome[s] # Open => outcome'[s] = outcome[s]

Decide == Decides /\ UNCHANGED <<log, written, halted>>

(* The first uncommitted seq, once it has an outcome, is committed; a     *)
(* result is written once.                                                 *)
IsNext(s) == s \notin Committed /\ \A r \in Seqs : r < s => r \in Committed

Commit(s) ==
  /\ IsNext(s)
  /\ outcome[s] # Open
  /\ s \notin Written
  /\ log' = Append(log, [seq |-> s, outcome |-> outcome[s]])
  /\ written' = IF outcome[s] = "SUCCESS" THEN Append(written, s) ELSE written
  /\ UNCHANGED <<outcome, halted>>

(* A failure: open seqs are given an outcome, and the write that failed    *)
(* may have reached the index without its commit.                          *)
Halt ==
  /\ halted' = TRUE
  /\ Decides
  /\ \/ UNCHANGED written
     \/ \E s \in Seqs : IsNext(s) /\ outcome[s] = "SUCCESS" /\ s \notin Written
                     /\ written' = Append(written, s)
  /\ UNCHANGED log

ANext == Decide \/ (\E s \in Seqs : Commit(s)) \/ Halt

ASpec == AInit /\ [][ANext]_avars

(* The stage ends: everything is committed, or it has halted. *)
Ends == <>(halted \/ Committed = Seqs)
=============================================================================
