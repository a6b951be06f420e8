-------------------------- MODULE MCStoreMigration --------------------------
(* Stores to start from, and the rest of the small instances for TLC. *)
EXTENDS GraphSweep

\* Where it is, its marker, the edges without counts, the episodes without a
\* flag, those extracted, the rows written later and the edges that were
\* deleted; how often it is migrated with --force and swept.
Store(remote, m, bare, absent, extracted, missing, gone, force, sweep) ==
  [server |-> remote, marker |-> m, bare |-> bare, absent |-> absent,
   extracted |-> extracted, missing |-> missing, gone |-> gone,
   forces |-> force, sweeps |-> sweep]

LegacyOnServer == Store(TRUE, 0, {"e1"}, {"n1", "n2"}, {"n3"}, {}, {"e2"}, 1, 0)
LegacyOnDisk   == Store(FALSE, 0, {"e1"}, {"n1", "n2", "n3"}, {}, {"e2"}, {}, 1, 0)
SecondOnServer == Store(TRUE, 1, {}, {"n1", "n2", "n3"}, {}, {}, {"e1", "e2"}, 1, 0)
CurrentOnDisk  == Store(FALSE, 2, {}, {}, {"n1"}, {"n3"}, {}, 1, 0)
LyingOnDisk    == Store(FALSE, 2, {"e1"}, {"n1"}, {"n2"}, {"n3", "e2"}, {}, 1, 0)
SweptOnDisk    == Store(FALSE, 2, {}, {}, {"n1"}, {"n2", "n3"}, {}, 0, 1)
SweptOnServer  == Store(TRUE, 2, {}, {}, {}, {"e2"}, {}, 0, 1)

AllStores ==
  {LegacyOnServer, LegacyOnDisk, SecondOnServer, CurrentOnDisk, LyingOnDisk, SweptOnDisk}
JustCurrent == {CurrentOnDisk}
JustLegacyOnServer == {LegacyOnServer}
JustSwept == {SweptOnDisk}
SweptShared == {SweptOnServer}

OneHome == [c \in {"worker", "user"} |-> "p1"]
ArchiveOf == [n \in {"n1", "n2", "n3"} |-> IF n = "n3" THEN "logB" ELSE "logA"]
EndsOf == [e \in {"e1", "e2"} |-> IF e = "e1" THEN {"x", "y"} ELSE {"y", "z"}]
SourceOf == [r \in {"e1", "e2", "x", "y", "z"} |->
               IF r \in {"e1", "x"} THEN "logA" ELSE "logB"]
=============================================================================
