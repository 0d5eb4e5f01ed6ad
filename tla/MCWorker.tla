-------------------------------- MODULE MCWorker -------------------------------
(***************************************************************************)
(* The Worker for TLC: two peers, requests of every kind that succeed and  *)
(* fail, and deployments into one directory at the same time.              *)
(***************************************************************************)
EXTENDS Worker

CONSTANTS p1, p2, d1, f1, f2, worker, stranger

MCRequest(id, p, type) ==
    [id |-> id, from |-> p, to |-> worker, type |-> type, valid |-> TRUE, miner |-> "m",
     config |-> FALSE, profile |-> "low", dir |-> d1, bundleType |-> "", bundle |-> Absent]

File(f) == [kind |-> "file", name |-> f, oversize |-> FALSE]
Other(kind) == [kind |-> kind, name |-> f1, oversize |-> FALSE]

\* A bundle encrypted for peer p, with a profile; then its variants.
MCBundle(id, p, type, entries) ==
    [id |-> id, type |-> type, checksum |-> TRUE, secret |-> p, plain |-> FALSE,
     profile |-> "low", entries |-> entries]
Damaged(b) == [b EXCEPT !.checksum = FALSE]
Foreign(b) == [b EXCEPT !.secret = stranger]
Deploy(id, p, b) == [MCRequest(id, p, "deploy") EXCEPT !.bundle = b]

MinerBundle(p) == MCBundle(1, p, "miner", <<Other("dir"), File(f1), Other("link"), File(f2)>>)
SmallBundle(p) == MCBundle(2, p, "full", <<File(f1)>>)
LargeBundle(p) ==
    MCBundle(3, p, "miner", <<File(f1), [File(f2) EXCEPT !.oversize = TRUE]>>)
BadBundle(p) == MCBundle(4, p, "miner", <<File(f2), Other("bad")>>)
ProfileBundle(p) == MCBundle(5, p, "profile", <<>>)
LegacyBundle(p) == [ProfileBundle(p) EXCEPT !.type = "", !.plain = TRUE, !.secret = stranger]
BrokenProfile(p) == [MinerBundle(p) EXCEPT !.profile = "broken"]

MCScenario(first, second, withMiners, withProfiles) ==
    [requests |-> [p \in Peers |-> IF p = p1 THEN first ELSE second],
     miners |-> withMiners, profiles |-> withProfiles]

\* Deployments into one directory that overlap or follow each other.
Deployments ==
    {MCScenario(<<Deploy(1, p1, a), Deploy(2, p1, SmallBundle(p1))>>, <<Deploy(1, p2, b)>>,
                TRUE, TRUE) :
        a \in {MinerBundle(p1), LargeBundle(p1), BrokenProfile(p1)},
        b \in {SmallBundle(p2), BadBundle(p2), Damaged(MinerBundle(p2)), Foreign(SmallBundle(p2))}}

\* Profiles that are deployed and used by another peer's requests.
Profiles ==
    {MCScenario(<<Deploy(1, p1, b), MCRequest(2, p1, "get_stats")>>,
                <<MCRequest(1, p2, "start_miner"), MCRequest(2, p2, last)>>, TRUE, TRUE) :
        b \in {ProfileBundle(p1), Damaged(ProfileBundle(p1)), SmallBundle(p1)},
        last \in {"stop_miner", "get_logs"}}

\* Requests that are refused, for their own sake or for want of a manager.
Refusals ==
    {MCScenario(<<[MCRequest(1, p1, type) EXCEPT !.valid = FALSE], MCRequest(2, p1, type)>>,
                <<[Deploy(1, p2, LegacyBundle(p2)) EXCEPT !.bundleType = kind],
                  [MCRequest(2, p2, "start_miner") EXCEPT !.config = TRUE]>>, has, has) :
        type \in {"ping", "stop_miner", "get_logs", "unknown"},
        kind \in {"profile", "nonsense"}, has \in BOOLEAN}
      \cup {MCScenario(<<[Deploy(1, p1, SmallBundle(p1)) EXCEPT !.valid = FALSE]>>,
                       <<Deploy(1, p2, SmallBundle(p2))>>, TRUE, FALSE)}

MCScenarios == Deployments \cup Profiles \cup Refusals
================================================================================
