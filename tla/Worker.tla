--------------------------------- MODULE Worker --------------------------------
(***************************************************************************)
(* The Worker (go/node/worker.go): requests of controllers, each handled   *)
(* by HandleMessage on the read loop of its connection, so that requests   *)
(* of different peers are handled at the same time and share the miners,   *)
(* the profiles, the identity and the installation directories.  Bundles   *)
(* are checked, decrypted and unpacked file by file (go/node/bundle.go).   *)
(*                                                                         *)
(* The miner manager, the profile manager, the file system and the         *)
(* connection are external; each of their calls may fail.                  *)
(***************************************************************************)
EXTENDS Integers, Sequences, FiniteSets

CONSTANTS
    Peers,      \* connections, one read loop each
    Scenarios,  \* what happens, chosen at the start: each peer's requests, and
                \* which managers the worker has been given
    Dirs,       \* installation directories, one per name of a bundle
    Files,      \* names of files in a bundle
    Absent,     \* no such file; no such bundle
    Mixed       \* two writers have written into one file

AllRequests ==
    UNION {{s.requests[p][i] : i \in DOMAIN s.requests[p]} : s \in Scenarios, p \in Peers}

Entries == [kind : {"file", "dir", "link", "bad"}, name : Files, oversize : BOOLEAN]

\* A peer's requests come from that peer and have IDs of their own; what is
\* deployed is a sequence of tar entries.
ASSUME WorkerAssumption ==
    /\ \A s \in Scenarios :
          /\ s.requests \in [Peers -> Seq(AllRequests)]
          /\ \A p \in Peers : \A i, j \in DOMAIN s.requests[p] :
                /\ s.requests[p][i].from = p
                /\ s.requests[p][i].id = s.requests[p][j].id => i = j
    /\ \A r \in AllRequests :
          r.type = "deploy" => r.dir \in Dirs /\ r.bundle.entries \in Seq(Entries)

VARIABLES
    todo,        \* requests of a peer not finished; the first may be under way
    hasMiners, hasProfiles,  \* w.minerManager, w.profileManager are set
    registered,  \* RegisterWithTransport has been called
    identity,    \* the node has an identity
    miners,      \* running miners
    profiles,    \* saved profiles, with the bundle each came from
    disk,        \* disk[d][f]: contents of a file
    pc,          \* where the handler of each peer's request is
    entry,       \* the tar entry that is extracted next
    outcome,     \* what the handler will answer
    asked,       \* history: all requests of each peer
    replies,     \* history: messages sent to each peer
    silent,      \* history: requests of each peer that get no message, and why
    solo,        \* history: no other deployment into the same directory overlaps
    installed    \* history: the bundle acknowledged last in a directory, if no other
                 \* deployment into it has begun

external == <<miners, profiles, disk>>
hist == <<solo, installed>>
fixed == <<hasMiners, hasProfiles, asked>>
vars == <<todo, fixed, registered, identity, external, pc, entry, outcome,
          replies, silent, hist>>

Request(p) == Head(todo[p])
Ready(p) == pc[p] = "idle" /\ todo[p] # <<>>
Handles(p, type) == Ready(p) /\ registered /\ Request(p).type = type

\* The type of message that answers a request.
ReplyType(type) ==
    CASE type = "ping" -> "pong"
      [] type = "get_stats" -> "stats"
      [] type \in {"start_miner", "stop_miner"} -> "miner_ack"
      [] type = "get_logs" -> "logs"
      [] type = "deploy" -> "deploy_ack"

\* msg.Reply: the addresses swapped and the request's ID.
Reply(msg, type, success) ==
    [type |-> type, from |-> msg.to, to |-> msg.from, replyTo |-> msg.id,
     success |-> success]

\* The handler ends with a reply of the request's kind that reports success or
\* not, or with an error.
Answers(p, success) ==
    /\ pc' = [pc EXCEPT ![p] = "reply"]
    /\ outcome' = [outcome EXCEPT ![p] =
          Reply(Request(p), ReplyType(Request(p).type), success)]

Fails(p) ==
    /\ pc' = [pc EXCEPT ![p] = "reply"]
    /\ outcome' = [outcome EXCEPT ![p] = Reply(Request(p), "error", FALSE)]

Steady == UNCHANGED <<todo, fixed, registered, identity, replies, silent>>

--------------------------------------------------------------------------------
\* The read loop finds no handler.
NotRegistered(p) ==
    /\ Ready(p) /\ ~registered
    /\ todo' = [todo EXCEPT ![p] = Tail(@)]
    /\ silent' = [silent EXCEPT ![p] = @ \cup {[id |-> Request(p).id, why |-> "no handler"]}]
    /\ UNCHANGED <<fixed, registered, identity, external, pc, entry, outcome, replies, hist>>

\* HandleMessage ignores a type it does not know.
UnknownType(p) ==
    /\ Handles(p, "unknown")
    /\ todo' = [todo EXCEPT ![p] = Tail(@)]
    /\ silent' = [silent EXCEPT ![p] = @ \cup {[id |-> Request(p).id, why |-> "unknown"]}]
    /\ UNCHANGED <<fixed, registered, identity, external, pc, entry, outcome, replies, hist>>

handlePing(p) ==
    /\ Handles(p, "ping")
    /\ IF Request(p).valid THEN Answers(p, TRUE) ELSE Fails(p)
    /\ Steady
    /\ UNCHANGED <<external, entry, hist>>

handleGetStats(p) ==
    /\ Handles(p, "get_stats")
    /\ IF identity THEN Answers(p, TRUE) ELSE Fails(p)
    /\ Steady
    /\ UNCHANGED <<external, entry, hist>>

\* The request is refused, or its configuration is at hand: it is in the
\* request, or the profile it names is there now.
handleStartMiner(p) ==
    /\ Handles(p, "start_miner")
    /\ LET r == Request(p)
           found == \/ r.config
                    \/ hasProfiles /\ \E s \in profiles : s.profile = r.profile
       IN  IF hasMiners /\ r.valid /\ r.miner # "" /\ found
             THEN pc' = [pc EXCEPT ![p] = "start"] /\ UNCHANGED outcome
             ELSE Fails(p)
    /\ Steady
    /\ UNCHANGED <<external, entry, hist>>

\* minerManager.StartMiner
StartMiner(p) ==
    /\ pc[p] = "start"
    /\ \/ miners' = miners \cup {Request(p).miner} /\ Answers(p, TRUE)
       \/ UNCHANGED miners /\ Answers(p, FALSE)
    /\ Steady
    /\ UNCHANGED <<profiles, disk, entry, hist>>

\* minerManager.StopMiner fails for a miner that does not run, and may fail.
handleStopMiner(p) ==
    /\ Handles(p, "stop_miner")
    /\ LET r == Request(p)
       IN  \/ /\ hasMiners /\ r.valid /\ r.miner \in miners
              /\ miners' = miners \ {r.miner}
              /\ Answers(p, TRUE)
           \/ /\ hasMiners /\ r.valid
              /\ UNCHANGED miners
              /\ Answers(p, FALSE)
           \/ /\ ~(hasMiners /\ r.valid)
              /\ UNCHANGED miners
              /\ Fails(p)
    /\ Steady
    /\ UNCHANGED <<profiles, disk, entry, hist>>

\* (How many lines the answer has is left out.)
handleGetLogs(p) ==
    /\ Handles(p, "get_logs")
    /\ LET r == Request(p)
       IN  IF hasMiners /\ r.valid /\ r.miner \in miners THEN Answers(p, TRUE) ELSE Fails(p)
    /\ Steady
    /\ UNCHANGED <<external, entry, hist>>

--------------------------------------------------------------------------------
\* The bundle of a deploy request.  Its type is its own, or the payload's.
BundleType(r) == IF r.bundle.type = "" THEN r.bundleType ELSE r.bundle.type

MutExtractable(p, b) == b.secret = p

\* ExtractProfileBundle and ExtractMinerBundle: the checksum matches the data,
\* and the data can be decrypted with the connection's secret.
Extractable(p, b) == b.checksum /\ b.secret = p

\* A profile may also travel as plain JSON.
ProfileExtractable(p, b) == b.checksum /\ (b.secret = p \/ b.plain)

handleDeployProfile(p) ==
    /\ Handles(p, "deploy") /\ Request(p).valid
    /\ BundleType(Request(p)) = "profile"
    /\ LET b == Request(p).bundle
       IN  IF hasProfiles /\ ProfileExtractable(p, b) /\ b.profile # "broken"
             THEN \/ /\ profiles' = profiles \cup {[profile |-> b.profile, bundle |-> b]}
                     /\ Answers(p, TRUE)
                  \/ UNCHANGED profiles /\ Answers(p, FALSE)
             ELSE UNCHANGED profiles /\ Fails(p)
    /\ Steady
    /\ UNCHANGED <<miners, disk, entry, hist>>

\* Deployments into a directory from their first write to their answer.
Deploying(d) ==
    {p \in Peers : /\ pc[p] \in {"extract", "write", "reply"}
                   /\ Request(p).type = "deploy" /\ Request(p).valid
                   /\ BundleType(Request(p)) \in {"miner", "full"}
                   /\ Request(p).dir = d
                   /\ entry[p] > 0}

\* A bundle with a miner: the directory comes from the payload's name.  It is
\* created if need be, which may fail.
handleDeployMiner(p) ==
    /\ Handles(p, "deploy") /\ Request(p).valid
    /\ BundleType(Request(p)) \in {"miner", "full"}
    /\ LET d == Request(p).dir
       IN  \/ /\ Extractable(p, Request(p).bundle)
              /\ pc' = [pc EXCEPT ![p] = "extract"]
              /\ entry' = [entry EXCEPT ![p] = 1]
              /\ solo' = [q \in Peers |->
                            IF q = p THEN Deploying(d) = {}
                            ELSE solo[q] /\ q \notin Deploying(d)]
              /\ installed' = [installed EXCEPT ![d] = Absent]
              /\ UNCHANGED outcome
           \/ /\ Fails(p)
              /\ UNCHANGED <<entry, hist>>
    /\ Steady
    /\ UNCHANGED external

\* A payload that does not parse, or a bundle of another type.
handleDeployRefused(p) ==
    /\ Handles(p, "deploy")
    /\ Request(p).valid => BundleType(Request(p)) \notin {"profile", "miner", "full"}
    /\ Fails(p)
    /\ Steady
    /\ UNCHANGED <<external, entry, hist>>

Entry(p) == Request(p).bundle.entries[entry[p]]
MutExtracting(p) == pc[p] = "extract" /\ entry[p] < Len(Request(p).bundle.entries)

Extracting(p) == pc[p] = "extract" /\ entry[p] <= Len(Request(p).bundle.entries)

MutExtractOther(p) ==
    /\ Extracting(p) /\ Entry(p).kind \in {"dir", "link"}
    /\ entry' = [entry EXCEPT ![p] = IF Entry(p).kind = "link" THEN @ ELSE @ + 1]
    /\ Steady
    /\ UNCHANGED <<external, pc, outcome, hist>>

\* extractTarball: a directory is made, a link is skipped.
ExtractOther(p) ==
    /\ Extracting(p) /\ Entry(p).kind \in {"dir", "link"}
    /\ entry' = [entry EXCEPT ![p] = @ + 1]
    /\ Steady
    /\ UNCHANGED <<external, pc, outcome, hist>>

\* A name that is refused ("bad", whatever the entry is), or a directory or a
\* file that cannot be created: what was extracted before stays.  A link with a
\* good name is skipped before anything can fail.
ExtractFails(p) ==
    /\ Extracting(p) /\ Entry(p).kind # "link"
    /\ Fails(p)
    /\ Steady
    /\ UNCHANGED <<external, entry, hist>>

Contents(b, whole) == [bundle |-> b, whole |-> whole]

\* A file is created, or emptied if it is there.
OpenFile(p) ==
    /\ Extracting(p) /\ Entry(p).kind = "file"
    /\ disk' = [disk EXCEPT ![Request(p).dir][Entry(p).name] =
                   Contents(Request(p).bundle, FALSE)]
    /\ pc' = [pc EXCEPT ![p] = "write"]
    /\ Steady
    /\ UNCHANGED <<miners, profiles, entry, outcome, hist>>

\* io.Copy: the file is written, over whatever another writer has left in it.
WriteFile(p) ==
    /\ pc[p] = "write" /\ ~Entry(p).oversize
    /\ disk' = [disk EXCEPT ![Request(p).dir][Entry(p).name] =
                   IF @ = Contents(Request(p).bundle, FALSE)
                     THEN Contents(Request(p).bundle, TRUE)
                     ELSE Mixed]
    /\ pc' = [pc EXCEPT ![p] = "extract"]
    /\ entry' = [entry EXCEPT ![p] = @ + 1]
    /\ Steady
    /\ UNCHANGED <<miners, profiles, outcome, hist>>

\* io.Copy fails part-way; the file stays.
WriteFails(p) ==
    /\ pc[p] = "write"
    /\ Fails(p)
    /\ Steady
    /\ UNCHANGED <<external, entry, hist>>

\* A file above the limit is removed again.
WriteOversize(p) ==
    /\ pc[p] = "write" /\ Entry(p).oversize
    /\ disk' = [disk EXCEPT ![Request(p).dir][Entry(p).name] = Absent]
    /\ Fails(p)
    /\ Steady
    /\ UNCHANGED <<miners, profiles, entry, hist>>

\* Everything is extracted; the profile in the bundle is saved if it can be,
\* and the answer is success either way.
SaveBundledProfile(p) ==
    /\ pc[p] = "extract" /\ ~Extracting(p)
    /\ LET b == Request(p).bundle
       IN  \/ /\ hasProfiles /\ b.profile \notin {"none", "broken"}
              /\ profiles' = profiles \cup {[profile |-> b.profile, bundle |-> b]}
           \/ UNCHANGED profiles
    /\ Answers(p, TRUE)
    /\ Steady
    /\ UNCHANGED <<miners, disk, entry, hist>>

--------------------------------------------------------------------------------
\* The read loop goes on to the next message.
Finish(p) ==
    /\ pc' = [pc EXCEPT ![p] = "idle"]
    /\ entry' = [entry EXCEPT ![p] = 0]
    /\ todo' = [todo EXCEPT ![p] = Tail(@)]
    /\ UNCHANGED <<fixed, registered, identity, external, outcome, solo>>

\* conn.Send succeeds; an error needs an identity to be sent from.
SendReply(p) ==
    /\ pc[p] = "reply"
    /\ outcome[p].type = "error" => identity
    /\ replies' = [replies EXCEPT ![p] = Append(@, outcome[p])]
    /\ installed' =
          LET r == Request(p)
          IN  IF outcome[p].success /\ entry[p] > 0 /\ solo[p]
                THEN [installed EXCEPT ![r.dir] = r.bundle] ELSE installed
    /\ Finish(p)
    /\ UNCHANGED silent

MutSendFails(p) ==
    /\ pc[p] = "reply"
    /\ silent' = [silent EXCEPT ![p] = @ \cup {[id |-> Request(p).id, why |-> "send failed"]}]
    /\ pc' = [pc EXCEPT ![p] = "idle"]
    /\ entry' = [entry EXCEPT ![p] = 0]
    /\ UNCHANGED <<todo, fixed, registered, identity, external, outcome, replies, hist>>

\* conn.Send fails, or there is no identity for an error; the read loop goes on.
SendFails(p) ==
    /\ pc[p] = "reply"
    /\ \E why \in {"send failed", "no identity"} :
          /\ why = "no identity" => outcome[p].type = "error" /\ ~identity
          /\ why = "send failed" => (outcome[p].type = "error" => identity)
          /\ silent' = [silent EXCEPT ![p] = @ \cup {[id |-> Request(p).id, why |-> why]}]
    /\ Finish(p)
    /\ UNCHANGED <<replies, installed>>

\* RegisterWithTransport
RegisterWithTransport ==
    /\ ~registered
    /\ registered' = TRUE
    /\ UNCHANGED <<todo, fixed, identity, external, pc, entry, outcome, replies, silent, hist>>

\* NodeManager.Delete
DeleteIdentity ==
    /\ identity
    /\ identity' = FALSE
    /\ UNCHANGED <<todo, fixed, registered, external, pc, entry, outcome, replies, silent, hist>>

Init ==
    /\ \E s \in Scenarios :
          /\ todo = s.requests /\ asked = s.requests
          /\ hasMiners = s.miners /\ hasProfiles = s.profiles
    /\ registered = FALSE /\ identity = TRUE
    /\ miners = {} /\ profiles = {}
    /\ disk = [d \in Dirs |-> [f \in Files |-> Absent]]
    /\ pc = [p \in Peers |-> "idle"]
    /\ entry = [p \in Peers |-> 0]
    /\ outcome = [p \in Peers |-> Absent]
    /\ replies = [p \in Peers |-> <<>>]
    /\ silent = [p \in Peers |-> {}]
    /\ solo = [p \in Peers |-> TRUE]
    /\ installed = [d \in Dirs |-> Absent]

Handle(p) ==
    \/ NotRegistered(p) \/ UnknownType(p)
    \/ handlePing(p) \/ handleGetStats(p) \/ handleStopMiner(p) \/ handleGetLogs(p)
    \/ handleStartMiner(p) \/ StartMiner(p)
    \/ handleDeployProfile(p) \/ handleDeployMiner(p) \/ handleDeployRefused(p)
    \/ ExtractOther(p) \/ ExtractFails(p) \/ SaveBundledProfile(p)
    \/ OpenFile(p) \/ WriteFile(p) \/ WriteFails(p) \/ WriteOversize(p)
    \/ SendReply(p) \/ SendFails(p)

Next ==
    \/ \E p \in Peers : Handle(p)
    \/ RegisterWithTransport
    \/ DeleteIdentity

\* A read loop goes on with its message.
Spec == Init /\ [][Next]_vars /\ \A p \in Peers : WF_vars(Handle(p))

--------------------------------------------------------------------------------
FilesOf(b) == {b.entries[i].name : i \in {j \in DOMAIN b.entries : b.entries[j].kind = "file"}}

\* When a peer has been told that its miner bundle is deployed, and no other
\* deployment into that directory overlapped or came after it, every file of
\* the bundle is there, whole.
AckedIsInstalled ==
    \A d \in Dirs :
        installed[d] # Absent =>
            \A f \in FilesOf(installed[d]) : disk[d][f] = Contents(installed[d], TRUE)

Requests(p) == {asked[p][i] : i \in DOMAIN asked[p]}
Sent(p, b) == \E r \in Requests(p) : r.bundle = b

\* Whatever is in an installation directory or among the profiles came from a
\* bundle whose checksum matched and which its sender's connection could
\* decrypt, or from a plain profile; failed and overlapping deployments too.
OnlyVerifiedIsKept ==
    /\ \A d \in Dirs, f \in Files :
          disk[d][f] \notin {Absent, Mixed} =>
            LET b == disk[d][f].bundle
            IN  \E p \in Peers : Sent(p, b) /\ b.checksum /\ b.secret = p
    /\ \A s \in profiles :
          LET b == s.bundle
          IN  \E p \in Peers : Sent(p, b) /\ b.checksum /\ (b.secret = p \/ b.plain)

\* The reply passes the controller's ValidateResponse, or is an error.
ValidReply(reply, r) == reply.type \in {ReplyType(r.type), "error"}

\* A request is answered at most once, by a message to its sender that the
\* controller takes for the answer to it, and never after it was given up.
AnsweredOnce ==
    \A p \in Peers :
        /\ \A i, j \in DOMAIN replies[p] :
              replies[p][i].replyTo = replies[p][j].replyTo => i = j
        /\ \A i \in DOMAIN replies[p] :
              /\ replies[p][i].to = p
              /\ \E r \in Requests(p) :
                    r.id = replies[p][i].replyTo /\ ValidReply(replies[p][i], r)
              /\ \A s \in silent[p] : s.id # replies[p][i].replyTo

\* Every request is answered in the end, except when the worker was not
\* registered yet, when its type is unknown, when sending failed, or when it
\* failed and the node has no identity any more.
EveryRequestAnswered ==
    \A p \in Peers :
        <>(\A r \in Requests(p) :
              \/ \E i \in DOMAIN replies[p] : replies[p][i].replyTo = r.id
              \/ \E s \in silent[p] :
                    /\ s.id = r.id
                    /\ s.why = "unknown" => r.type = "unknown"
                    /\ s.why = "no identity" => ~identity)
================================================================================
