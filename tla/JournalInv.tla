----------------------------- MODULE JournalInv -----------------------------
(***************************************************************************)
(* The inductive invariant behind the safety properties of Journal.        *)
(* DiskTruth alone is not inductive: it says nothing of the record in      *)
(* memory, of the place the process is at, or of the command in flight,    *)
(* and each of them decides what the next save writes.                     *)
(***************************************************************************)
EXTENDS Journal

\* A record that a pending operation can be built on.
Based(r) == Decodable(r) /\ r.snap # NoDigest

\* Where the process is determines the shape of its records and its command.
Shape ==
  /\ Decodable(disk)
  /\ pc # "closed" => Decodable(mem)
  /\ cmd # NoCmd <=> pc = "wait"
  /\ pc = "wait" => cmd.op = mem.pending /\ cmd.step = Index(mem)
  /\ pc \in {"run", "wait", "observe"} => disk = mem
  /\ pc \in {"intent", "run", "wait", "observe", "reconcile"} =>
       mem.pending # "none"
  /\ pc \in {"fresh", "snap", "base"} => mem.owned = 0
  /\ pc \in {"fresh", "snap", "base", "witness"} => mem.pending = "none"
  /\ pc = "base" => mem.snap # NoDigest
  /\ pc = "snap" => ~scoped
  /\ pc \in {"check", "witness"} =>
       (call = "setup" /\ mem.owned < N) \/ (call = "recover" /\ mem.owned > 0)
  /\ pc \in {"commit", "settle"} =>
       Based(seen) /\ seen.pending = "none"
  /\ pc \in {"intent", "run", "wait", "observe", "commit"} =>
       call \in {"setup", "recover"}
  /\ pc \in {"enter", "fresh", "snap", "base"} => call = "setup"
  /\ pc \in {"idle", "enter", "fresh", "snap", "base"} => script = "worker"
  /\ script = "guardian" /\ pc # "closed" => call \in {"resolve", "recover"}
  /\ scoped /\ orphan # NoCmd => /\ pc = "closed"
                                 /\ disk.pending = orphan.op
                                 /\ orphan.step = Index(disk)

\* The effect a command in flight has already had.
InFlight(r, c) == res = (IF c.applied THEN Prefix(After(r)) ELSE Prefix(r.owned))

\* Every record, on disk, in memory or about to be saved, is true of the
\* kernel as long as nobody else writes the footprint.
Truth ==
  ~disturbed =>
    /\ res \in Outcomes(disk)
    /\ pc # "closed" => res \in Outcomes(mem)
    /\ pc \in {"intent", "run"} => res = Prefix(mem.owned)
    /\ pc = "wait" => InFlight(mem, cmd)
    /\ pc = "observe" => res = Prefix(After(mem))
    /\ pc \in {"commit", "settle"} => res = Prefix(seen.owned)
    /\ scoped /\ orphan # NoCmd => InFlight(disk, orphan)

\* The guardian's record never drifts from the disk, so that its report is
\* about the journal the next owner will read.
Report ==
  /\ script = "guardian" /\ pc \notin {"closed", "intent"} => mem = disk
  /\ pc # "closed" => ~clean
  /\ CleanReport

\* A record's snapshot is the profile of the steps it owns.
HonestRecord(r) == r.snap # NoDigest => r.snap.res = Prefix(r.owned)
Honest == scoped => /\ HonestRecord(disk)
                    /\ pc # "closed" => HonestRecord(mem)
                    /\ pc \in {"commit", "settle"} => HonestRecord(seen)

\* The inductive invariant.
IInv == TypeOK /\ Shape /\ Truth /\ Report /\ Honest
=============================================================================
