------------------------------ MODULE WorkerProofs -----------------------------
(***************************************************************************)
(* The safety of the Worker for any number of peers, requests, directories *)
(* and files: every request has at most one answer, a deployment that is   *)
(* acknowledged is there, and nothing unverified is kept.                  *)
(***************************************************************************)
EXTENDS Worker, TLAPS

--------------------------------------------------------------------------------
(* Requests and answers. *)

Messages ==
    {Reply(r, type, success) : r \in AllRequests, success \in BOOLEAN,
                               type \in {ReplyType(q.type) : q \in AllRequests} \cup {"error"}}

\* The number of requests of peer p that are finished.
Done(p) == Len(asked[p]) - Len(todo[p])

Types ==
    /\ asked \in [Peers -> Seq(AllRequests)]
    /\ todo \in [Peers -> Seq(AllRequests)]
    /\ replies \in [Peers -> Seq(Messages)]
    /\ silent = [p \in Peers |-> silent[p]]
    /\ pc \in [Peers -> {"idle", "start", "extract", "write", "reply"}]
    /\ outcome = [p \in Peers |-> outcome[p]]

\* What a peer asks, as the scenario has it.
AskedInv ==
    \A p \in Peers : \A i, j \in DOMAIN asked[p] :
      /\ asked[p][i].from = p
      /\ asked[p][i].id = asked[p][j].id => i = j

\* The requests to do are the last ones asked.
TodoInv ==
    \A p \in Peers :
      /\ Len(todo[p]) <= Len(asked[p])
      /\ \A i \in 1..Len(todo[p]) : todo[p][i] = asked[p][Done(p) + i]

\* A handler that is at work has a request, and its answer is to that request.
CallInv ==
    \A p \in Peers :
      /\ pc[p] # "idle" => todo[p] # <<>>
      /\ pc[p] = "reply" =>
           \E type \in {ReplyType(Request(p).type), "error"}, success \in BOOLEAN :
             outcome[p] = Reply(Request(p), type, success)

\* The message to peer p answers one of the first n requests of rs.
IsReply(p, rs, n, m) ==
    \E k \in 1..n :
      /\ m.to = p /\ m.replyTo = rs[k].id
      /\ m.type \in {ReplyType(rs[k].type), "error"}

\* Only requests that are finished have been answered or given up, each once.
AnswerInv ==
    \A p \in Peers :
      /\ \A i \in 1..Len(replies[p]) : IsReply(p, asked[p], Done(p), replies[p][i])
      /\ \A s \in silent[p] : \E k \in 1..Done(p) : s.id = asked[p][k].id
      /\ \A i, j \in 1..Len(replies[p]) : replies[p][i].replyTo = replies[p][j].replyTo => i = j
      /\ \A i \in 1..Len(replies[p]), s \in silent[p] : s.id # replies[p][i].replyTo

TalkInv == Types /\ AskedInv /\ TodoInv /\ CallInv /\ AnswerInv

--------------------------------------------------------------------------------
(* Deployments. *)

DeployTypes ==
    /\ entry \in [Peers -> Nat]
    /\ disk = [d \in Dirs |-> [f \in Files |-> disk[d][f]]]
    /\ solo \in [Peers -> BOOLEAN]
    /\ installed = [d \in Dirs |-> installed[d]]

\* The request under way installs a bundle that has been verified.
Installs(p) ==
    /\ Request(p).type = "deploy" /\ Request(p).valid
    /\ BundleType(Request(p)) \in {"miner", "full"}
    /\ Extractable(p, Request(p).bundle)

IsFile(b, i) == i \in 1..Len(b.entries) /\ b.entries[i].kind = "file"

\* Only such a deployment has an entry, from its first step to its answer; its
\* directory has no bundle that counts as installed.
EntryOf(p) ==
    /\ pc[p] \in {"extract", "write"} => entry[p] > 0
    /\ entry[p] > 0 => /\ pc[p] \in {"extract", "write", "reply"}
                       /\ Installs(p)
                       /\ installed[Request(p).dir] = Absent
    /\ pc[p] = "write" => IsFile(Request(p).bundle, entry[p])

\* A deployment that is alone is the only one in its directory.
SoloInv ==
    \A p, q \in Peers :
      entry[p] > 0 /\ entry[q] > 0 /\ Request(p).dir = Request(q).dir /\ solo[p] => p = q

\* The files of a bundle before entry n are whole, but for the names given.
Whole(b, files, n, names) ==
    \A i \in 1..(n - 1) :
      IsFile(b, i) => \/ files[b.entries[i].name] = Contents(b, TRUE)
                      \/ b.entries[i].name \in names

\* How far a deployment that is alone has come.
Extracted(p) ==
    LET b == Request(p).bundle
        files == disk[Request(p).dir]
        name == b.entries[entry[p]].name
    IN  entry[p] > 0 /\ solo[p] =>
          /\ pc[p] = "extract" => Whole(b, files, entry[p], {})
          /\ pc[p] = "write" => /\ Whole(b, files, entry[p], {name})
                                /\ files[name] = Contents(b, FALSE)
          /\ pc[p] = "reply" /\ outcome[p].success => Whole(b, files, Len(b.entries) + 1, {})

DeployInv ==
    /\ DeployTypes /\ SoloInv /\ AckedIsInstalled
    /\ \A p \in Peers : EntryOf(p) /\ Extracted(p)

--------------------------------------------------------------------------------
(* What a step of a read loop does to requests and answers. *)

\* The handler answers its request, or fails.
Ends(p) ==
    /\ pc' = [pc EXCEPT ![p] = "reply"]
    /\ \E type \in {ReplyType(Request(p).type), "error"}, success \in BOOLEAN :
         outcome' = [outcome EXCEPT ![p] = Reply(Request(p), type, success)]

Works(p) ==
    /\ todo[p] # <<>>
    /\ \/ /\ \E x \in {"start", "extract", "write"} : pc' = [pc EXCEPT ![p] = x]
          /\ UNCHANGED outcome
       \/ Ends(p)
    /\ UNCHANGED <<todo, asked, replies, silent>>

\* The request is finished without a message.
GivesUp(p) ==
    /\ todo[p] # <<>>
    /\ pc' = [pc EXCEPT ![p] = "idle"]
    /\ todo' = [todo EXCEPT ![p] = Tail(@)]
    /\ \E why :
         silent' = [silent EXCEPT ![p] = @ \cup {[id |-> Request(p).id, why |-> why]}]
    /\ UNCHANGED <<asked, outcome, replies>>

\* Every step of a handler does one of these, or sends the answer.
LEMMA HandlerSteps ==
  ASSUME TalkInv, NEW p \in Peers, Handle(p)
  PROVE  Works(p) \/ GivesUp(p) \/ SendReply(p)
<1> USE DEF TalkInv, Types
<1>1. ASSUME NEW success \in BOOLEAN, Answers(p, success)
      PROVE  Ends(p)
  BY <1>1, Zenon DEF Answers, Ends
<1>2. Fails(p) => Ends(p)
  BY Zenon DEF Fails, Ends
<1>3. Ready(p) => pc[p] = "idle" /\ todo[p] # <<>>
  BY DEF Ready
<1>4. pc[p] # "idle" => todo[p] # <<>>
  BY DEF CallInv
<1>5. CASE NotRegistered(p) \/ UnknownType(p)
  <2>1. Ready(p) /\ UNCHANGED <<pc, asked, outcome, replies>>
    BY <1>5, Zenon DEF NotRegistered, UnknownType, Handles, fixed
  <2>2. pc' = [pc EXCEPT ![p] = "idle"]
    BY <1>3, <2>1
  <2>3. \E why :
          silent' = [silent EXCEPT ![p] = @ \cup {[id |-> Request(p).id, why |-> why]}]
    BY <1>5, Zenon DEF NotRegistered, UnknownType
  <2>4. todo' = [todo EXCEPT ![p] = Tail(@)]
    BY <1>5, Zenon DEF NotRegistered, UnknownType
  <2> QED BY <1>3, <2>1, <2>2, <2>3, <2>4, Zenon DEF GivesUp
<1>6. CASE handlePing(p) \/ handleGetStats(p) \/ handleGetLogs(p) \/ handleDeployRefused(p)
  BY <1>1, <1>2, <1>3, <1>6, Zenon
     DEF handlePing, handleGetStats, handleGetLogs, handleDeployRefused, Handles, Steady, fixed, Works
<1>7. CASE handleStopMiner(p) \/ StartMiner(p) \/ handleStartMiner(p)
  BY <1>1, <1>2, <1>3, <1>4, <1>7, Zenon
     DEF handleStopMiner, StartMiner, handleStartMiner, Handles, Steady, fixed, Works
<1>8. CASE handleDeployProfile(p) \/ handleDeployMiner(p)
  BY <1>1, <1>2, <1>3, <1>8, Zenon
     DEF handleDeployProfile, handleDeployMiner, Handles, Steady, fixed, Works
<1>9. CASE ExtractOther(p) \/ ExtractFails(p) \/ SaveBundledProfile(p)
  BY <1>1, <1>2, <1>4, <1>9, Zenon
     DEF ExtractOther, ExtractFails, SaveBundledProfile, Extracting, Steady, fixed, Works
<1>10. CASE OpenFile(p) \/ WriteFile(p) \/ WriteFails(p) \/ WriteOversize(p)
  BY <1>2, <1>4, <1>10
     DEF OpenFile, WriteFile, WriteFails, WriteOversize, Extracting, Steady, fixed, Works
<1>11. CASE SendFails(p)
  <2>1. /\ pc[p] # "idle" /\ UNCHANGED <<asked, outcome, replies>>
        /\ pc' = [pc EXCEPT ![p] = "idle"] /\ todo' = [todo EXCEPT ![p] = Tail(@)]
    BY <1>11, Zenon DEF SendFails, Finish, fixed
  <2>2. \E why :
          silent' = [silent EXCEPT ![p] = @ \cup {[id |-> Request(p).id, why |-> why]}]
    BY <1>11, Zenon DEF SendFails
  <2> QED BY <1>4, <2>1, <2>2, Zenon DEF GivesUp
<1>12. CASE SendReply(p)
  BY <1>12
<1> QED
  BY <1>5, <1>6, <1>7, <1>8, <1>9, <1>10, <1>11, <1>12 DEF Handle

\* The length and the domain of a sequence.
LEMMA SeqFacts ==
  ASSUME NEW S, NEW x \in Seq(S)
  PROVE  Len(x) \in Nat /\ DOMAIN x = 1..Len(x) /\ (x # <<>> => Len(x) > 0)
  OBVIOUS

\* A handler at work changes its own answer only.
LEMMA WorksTalk ==
  ASSUME TalkInv, NEW p \in Peers, Works(p)
  PROVE  TalkInv'
<1>1. todo' = todo /\ asked' = asked /\ replies' = replies /\ silent' = silent
  BY DEF Works
<1>2. Types'
  BY Zenon DEF TalkInv, Types, Works, Ends
<1>3. AskedInv' /\ TodoInv' /\ AnswerInv'
  <2>1. AskedInv => AskedInv'
    BY <1>1 DEF AskedInv
  <2>2. TodoInv => TodoInv'
    BY <1>1, Zenon DEF TodoInv, Done
  <2>3. \A q : Done(q)' = Done(q)
    BY <1>1 DEF Done
  <2>4. AnswerInv => AnswerInv'
    BY <1>1, <2>3 DEF AnswerInv
  <2> QED BY <2>1, <2>2, <2>4 DEF TalkInv
<1>4. CallInv'
  <2> SUFFICES ASSUME NEW q \in Peers
               PROVE  /\ pc'[q] # "idle" => todo[q] # <<>>
                      /\ pc'[q] = "reply" =>
                           \E type \in {ReplyType(Request(q).type), "error"}, success \in BOOLEAN :
                             outcome'[q] = Reply(Request(q), type, success)
    BY <1>1, Zenon DEF CallInv, Request
  <2>1. CASE q # p
    BY <2>1, Zenon DEF TalkInv, Types, CallInv, Works, Ends
  <2>2. CASE q = p /\ Ends(p)
    BY <2>2 DEF TalkInv, Types, Works, Ends
  <2>3. CASE q = p /\ ~Ends(p)
    BY <2>3 DEF TalkInv, Types, Works
  <2> QED BY <2>1, <2>2, <2>3
<1> QED BY <1>2, <1>3, <1>4 DEF TalkInv

\* The first request is finished: the next one takes its place.
LEMMA NextRequest ==
  ASSUME TalkInv, NEW p \in Peers, todo[p] # <<>>,
         todo' = [todo EXCEPT ![p] = Tail(@)], UNCHANGED asked
  PROVE  /\ todo' \in [Peers -> Seq(AllRequests)]
         /\ AskedInv' /\ TodoInv'
         /\ Done(p) \in Nat /\ Done(p) + 1 \in DOMAIN asked[p]
         /\ Request(p) = asked[p][Done(p) + 1]
         /\ Done(p)' = Done(p) + 1
         /\ \A q \in Peers \ {p} : Done(q)' = Done(q)
<1> USE DEF TalkInv, Types
<1>1. /\ Tail(todo[p]) \in Seq(AllRequests) /\ Len(Tail(todo[p])) = Len(todo[p]) - 1
      /\ \A i \in 1..(Len(todo[p]) - 1) : Tail(todo[p])[i] = todo[p][i + 1]
      /\ Len(todo[p]) \in Nat \ {0}
  OBVIOUS
<1>2. todo' \in [Peers -> Seq(AllRequests)] /\ todo'[p] = Tail(todo[p])
  BY <1>1
<1>3. AskedInv'
  BY DEF AskedInv
<1>4. Len(asked[p]) \in Nat /\ Len(todo[p]) <= Len(asked[p]) /\ DOMAIN asked[p] = 1..Len(asked[p])
  BY DEF TodoInv
<1>5. Done(p) \in Nat /\ Done(p) + 1 \in DOMAIN asked[p] /\ Done(p)' = Done(p) + 1
  BY <1>1, <1>2, <1>4 DEF Done
<1>6. Request(p) = asked[p][Done(p) + 1]
  <2>1. \A i \in 1..Len(todo[p]) : todo[p][i] = asked[p][Done(p) + i]
    BY DEF TodoInv
  <2>2. Request(p) = todo[p][1] /\ 1 \in 1..Len(todo[p])
    BY <1>1 DEF Request
  <2> QED BY <2>1, <2>2, Zenon
<1>7. \A q \in Peers \ {p} : Done(q)' = Done(q)
  BY DEF Done
<1>8. TodoInv'
  <2>1. ASSUME NEW i \in 1..Len(Tail(todo[p]))
        PROVE  Tail(todo[p])[i] = asked[p][Done(p) + 1 + i]
    <3>1. i + 1 \in 1..Len(todo[p]) /\ Tail(todo[p])[i] = todo[p][i + 1]
      BY <1>1, <2>1
    <3>2. todo[p][i + 1] = asked[p][Done(p) + (i + 1)]
      BY <3>1 DEF TodoInv
    <3>3. Done(p) + (i + 1) = Done(p) + 1 + i
      BY <1>5, <1>1, <2>1
    <3> QED BY <3>1, <3>2, <3>3
  <2>2. Len(Tail(todo[p])) <= Len(asked[p])
    BY <1>1, <1>4
  <2>3. ASSUME NEW q \in Peers \ {p}
        PROVE  /\ Len(todo[q]) <= Len(asked[q])
               /\ \A i \in 1..Len(todo[q]) : todo[q][i] = asked[q][Done(q) + i]
    BY <2>3 DEF TodoInv
  <2>4. SUFFICES ASSUME NEW q \in Peers
                 PROVE  /\ Len(todo'[q]) <= Len(asked[q])
                        /\ \A i \in 1..Len(todo'[q]) : todo'[q][i] = asked[q][Done(q)' + i]
    BY ZenonT(30) DEF TodoInv
  <2>5. CASE q = p
    BY <1>2, <1>5, <2>1, <2>2, <2>5
  <2>6. CASE q # p
    <3>1. todo'[q] = todo[q] /\ Done(q)' = Done(q)
      BY <1>7, <2>6
    <3> QED BY <2>3, <2>6, <3>1
  <2> QED BY <2>5, <2>6
<1> QED BY <1>2, <1>3, <1>5, <1>6, <1>7, <1>8

\* Once its request is finished, the handler is idle and the rest of the world
\* is as it was.
LEMMA NextCall ==
  ASSUME TalkInv, NEW p \in Peers,
         todo' = [todo EXCEPT ![p] = Tail(@)], pc' = [pc EXCEPT ![p] = "idle"],
         UNCHANGED outcome
  PROVE  CallInv'
<1> SUFFICES ASSUME NEW q \in Peers
             PROVE  /\ pc'[q] # "idle" => todo'[q] # <<>>
                    /\ pc'[q] = "reply" =>
                         \E type \in {ReplyType(Head(todo'[q]).type), "error"}, success \in BOOLEAN :
                           outcome[q] = Reply(Head(todo'[q]), type, success)
  BY Zenon DEF CallInv, Request
<1>1. CASE q = p
  BY <1>1 DEF TalkInv, Types
<1>2. CASE q # p
  <2>1. todo'[q] = todo[q] /\ pc'[q] = pc[q]
    BY <1>2 DEF TalkInv, Types
  <2> QED BY <2>1, Zenon DEF TalkInv, CallInv, Request
<1> QED BY <1>1, <1>2

\* A request that is finished has an ID that no later one has.
LEMMA NewId ==
  ASSUME TalkInv, NEW p \in Peers, Done(p) \in Nat, Done(p) + 1 \in DOMAIN asked[p]
  PROVE  \A k \in 1..Done(p) : asked[p][k].id # asked[p][Done(p) + 1].id
<1> SUFFICES ASSUME NEW k \in 1..Done(p)
             PROVE  asked[p][k].id # asked[p][Done(p) + 1].id
  OBVIOUS
<1>1. asked[p] \in Seq(AllRequests)
  BY DEF TalkInv, Types
<1>2. k \in DOMAIN asked[p] /\ k # Done(p) + 1
  BY <1>1
<1> QED BY <1>2 DEF TalkInv, AskedInv

\* A request that ends without an answer.
LEMMA GivesUpTalk ==
  ASSUME TalkInv, NEW p \in Peers, GivesUp(p)
  PROVE  TalkInv'
<1>1. /\ todo[p] # <<>> /\ todo' = [todo EXCEPT ![p] = Tail(@)]
      /\ pc' = [pc EXCEPT ![p] = "idle"]
      /\ asked' = asked /\ outcome' = outcome /\ replies' = replies
  BY DEF GivesUp
<1>2. /\ todo' \in [Peers -> Seq(AllRequests)]
      /\ AskedInv' /\ TodoInv'
      /\ Done(p) \in Nat /\ Done(p) + 1 \in DOMAIN asked[p]
      /\ Request(p) = asked[p][Done(p) + 1]
      /\ Done(p)' = Done(p) + 1
      /\ \A q \in Peers \ {p} : Done(q)' = Done(q)
  BY <1>1, NextRequest, Zenon
<1>3. PICK why : silent' = [silent EXCEPT ![p] = @ \cup {[id |-> Request(p).id, why |-> why]}]
  BY Zenon DEF GivesUp
<1>4. Types'
  BY <1>1, <1>2, <1>3, Zenon DEF TalkInv, Types
<1>5. CallInv'
  BY <1>1, NextCall, Zenon
<1>6. AnswerInv'
  <2> SUFFICES ASSUME NEW q \in Peers
               PROVE  /\ \A i \in 1..Len(replies[q]) : IsReply(q, asked[q], Done(q)', replies[q][i])
                      /\ \A s \in silent'[q] : \E k \in 1..Done(q)' : s.id = asked[q][k].id
                      /\ \A i, j \in 1..Len(replies[q]) :
                           replies[q][i].replyTo = replies[q][j].replyTo => i = j
                      /\ \A i \in 1..Len(replies[q]), s \in silent'[q] :
                           s.id # replies[q][i].replyTo
    BY <1>1 DEF AnswerInv
  <2>1. CASE q # p
    <3>1. Done(q)' = Done(q) /\ silent'[q] = silent[q]
      BY <1>2, <1>3, <2>1 DEF TalkInv, Types
    <3> QED BY <3>1 DEF TalkInv, AnswerInv
  <2>2. CASE q = p
    <3>0. /\ \A k \in 1..Done(p) : k \in 1..Done(p)'
          /\ Done(p) + 1 \in 1..Done(p)'
      BY <1>2
    <3>1. \A m : IsReply(p, asked[p], Done(p), m) => IsReply(p, asked[p], Done(p)', m)
      BY <3>0 DEF IsReply
    <3>2. \A s \in silent'[p] : s \in silent[p] \/ s.id = asked[p][Done(p) + 1].id
      BY <1>2, <1>3 DEF TalkInv, Types
    <3>3. \A s \in silent'[p] : \E k \in 1..Done(p)' : s.id = asked[p][k].id
      <4>1. \A s \in silent[p] : \E k \in 1..Done(p) : s.id = asked[p][k].id
        BY DEF TalkInv, AnswerInv
      <4> QED BY <3>0, <3>2, <4>1, Zenon
    <3>4. \A i \in 1..Len(replies[p]) : replies[p][i].replyTo # asked[p][Done(p) + 1].id
      <4>1. \A i \in 1..Len(replies[p]) : IsReply(p, asked[p], Done(p), replies[p][i])
        BY DEF TalkInv, AnswerInv
      <4>2. \A k \in 1..Done(p) : asked[p][k].id # asked[p][Done(p) + 1].id
        BY <1>2, NewId
      <4> QED BY <4>1, <4>2, Zenon DEF IsReply
    <3>5. \A i \in 1..Len(replies[p]), s \in silent'[p] : s.id # replies[p][i].replyTo
      BY <3>2, <3>4 DEF TalkInv, AnswerInv
    <3> QED BY <2>2, <3>1, <3>3, <3>5 DEF TalkInv, AnswerInv
  <2> QED BY <2>1, <2>2
<1> QED BY <1>2, <1>4, <1>5, <1>6 DEF TalkInv

\* An answer is sent: the only one of its request.
LEMMA SendTalk ==
  ASSUME TalkInv, NEW p \in Peers, SendReply(p)
  PROVE  TalkInv'
<1>1. /\ pc[p] = "reply" /\ todo' = [todo EXCEPT ![p] = Tail(@)]
      /\ pc' = [pc EXCEPT ![p] = "idle"]
      /\ asked' = asked /\ outcome' = outcome /\ silent' = silent
      /\ replies' = [replies EXCEPT ![p] = Append(@, outcome[p])]
  BY DEF SendReply, Finish, fixed
<1>2. todo[p] # <<>>
  BY <1>1 DEF TalkInv, CallInv
<1>3. /\ todo' \in [Peers -> Seq(AllRequests)]
      /\ AskedInv' /\ TodoInv'
      /\ Done(p) \in Nat /\ Done(p) + 1 \in DOMAIN asked[p]
      /\ Request(p) = asked[p][Done(p) + 1]
      /\ Done(p)' = Done(p) + 1
      /\ \A q \in Peers \ {p} : Done(q)' = Done(q)
  BY <1>1, <1>2, NextRequest, Zenon
<1> DEFINE r == asked[p][Done(p) + 1]
           m == outcome[p]
<1>4. PICK type \in {ReplyType(r.type), "error"}, success \in BOOLEAN : m = Reply(r, type, success)
  BY <1>1, <1>3 DEF TalkInv, CallInv
<1>5. r \in AllRequests /\ r.from = p
  BY <1>3 DEF TalkInv, Types, AskedInv
<1>6. m.to = p /\ m.replyTo = r.id /\ m.type \in {ReplyType(r.type), "error"}
  BY <1>4, <1>5 DEF Reply
<1>7. m \in Messages
  <2>1. type \in {ReplyType(q.type) : q \in AllRequests} \cup {"error"}
    BY <1>4, <1>5
  <2> QED BY <1>4, <1>5, <2>1 DEF Messages
<1> HIDE DEF m
<1>8. Types'
  BY <1>1, <1>3, <1>7, SMTT(30) DEF TalkInv, Types, m
<1>9. CallInv'
  BY <1>1, NextCall, Zenon
<1>10. AnswerInv'
  <2>0. asked' = asked /\ silent' = silent
    BY <1>1, SMTT(30)
  <2> SUFFICES ASSUME NEW q \in Peers
               PROVE  /\ \A i \in 1..Len(replies'[q]) : IsReply(q, asked[q], Done(q)', replies'[q][i])
                      /\ \A s \in silent[q] : \E k \in 1..Done(q)' : s.id = asked[q][k].id
                      /\ \A i, j \in 1..Len(replies'[q]) :
                           replies'[q][i].replyTo = replies'[q][j].replyTo => i = j
                      /\ \A i \in 1..Len(replies'[q]), s \in silent[q] :
                           s.id # replies'[q][i].replyTo
    BY <2>0, SMTT(30) DEF AnswerInv
  <2>1. CASE q # p
    <3>1. Done(q)' = Done(q) /\ replies'[q] = replies[q]
      BY <1>1, <1>3, <2>1 DEF TalkInv, Types
    <3> QED BY <3>1 DEF TalkInv, AnswerInv
  <2>2. CASE q = p
    <3>1. \A x : IsReply(p, asked[p], Done(p), x) => IsReply(p, asked[p], Done(p)', x)
      BY <1>3 DEF IsReply
    <3>2. IsReply(p, asked[p], Done(p)', m)
      BY <1>3, <1>6 DEF IsReply
    <3>3. /\ replies[p] \in Seq(Messages) /\ Len(replies[p]) \in Nat
          /\ replies'[p] = Append(replies[p], m)
      BY <1>1 DEF TalkInv, Types, m
    <3>4. /\ Len(replies'[p]) = Len(replies[p]) + 1
          /\ replies'[p][Len(replies[p]) + 1] = m
          /\ \A i \in 1..Len(replies[p]) : replies'[p][i] = replies[p][i]
      BY <1>7, <3>3
    <3>5. \A i \in 1..Len(replies'[p]) :
            \/ i \in 1..Len(replies[p]) /\ replies'[p][i] = replies[p][i]
            \/ i = Len(replies[p]) + 1 /\ replies'[p][i] = m
      BY <3>3, <3>4
    <3>0. \A k \in 1..Done(p) : asked[p][k].id # m.replyTo
      BY <1>3, <1>6, NewId
    <3>6. \A i \in 1..Len(replies[p]) : replies[p][i].replyTo # m.replyTo
      <4>1. \A i \in 1..Len(replies[p]) : IsReply(p, asked[p], Done(p), replies[p][i])
        BY DEF TalkInv, AnswerInv
      <4> QED BY <3>0, <4>1, ZenonT(30) DEF IsReply
    <3>7. \A s \in silent[p] : s.id # m.replyTo
      <4>1. \A s \in silent[p] : \E k \in 1..Done(p) : s.id = asked[p][k].id
        BY DEF TalkInv, AnswerInv
      <4> QED BY <3>0, <4>1, Zenon
    <3>8. \A i \in 1..Len(replies'[p]) : IsReply(p, asked[p], Done(p)', replies'[p][i])
      BY <3>1, <3>2, <3>5, SMTT(30) DEF TalkInv, AnswerInv
    <3>9. \A s \in silent[p] : \E k \in 1..Done(p)' : s.id = asked[p][k].id
      BY <1>3 DEF TalkInv, AnswerInv
    <3>10. \A i, j \in 1..Len(replies'[p]) :
             replies'[p][i].replyTo = replies'[p][j].replyTo => i = j
      <4>1. \A i, j \in 1..Len(replies[p]) : replies[p][i].replyTo = replies[p][j].replyTo => i = j
        BY SMTT(30) DEF TalkInv, AnswerInv
      <4> QED BY <3>5, <3>6, <4>1, ZenonT(30)
    <3>11. \A i \in 1..Len(replies'[p]), s \in silent[p] : s.id # replies'[p][i].replyTo
      BY <3>5, <3>7, SMTT(30) DEF TalkInv, AnswerInv
    <3> QED BY <2>2, <3>8, <3>9, <3>10, <3>11
  <2> QED BY <2>1, <2>2
<1> QED BY <1>3, <1>8, <1>9, <1>10 DEF TalkInv

\* Requests and answers are in order initially.
LEMMA TalkInit == Init => TalkInv
<1> SUFFICES ASSUME Init
             PROVE  TalkInv
  OBVIOUS
<1>1. PICK s \in Scenarios : todo = s.requests /\ asked = s.requests
  BY DEF Init
<1>2. todo \in [Peers -> Seq(AllRequests)] /\ asked \in [Peers -> Seq(AllRequests)]
  BY <1>1, WorkerAssumption
<1>3. AskedInv
  BY <1>1, WorkerAssumption DEF AskedInv
<1>4. pc = [p \in Peers |-> "idle"] /\ replies = [p \in Peers |-> <<>>] /\ silent = [p \in Peers |-> {}]
  BY DEF Init
<1>5. Types
  BY <1>2, <1>4 DEF Types, Init
<1>6. \A p \in Peers : Done(p) = 0 /\ Len(todo[p]) \in Nat /\ todo[p] = asked[p]
  BY <1>1, <1>2 DEF Done
<1>7. TodoInv
  BY <1>1, <1>6 DEF TodoInv
<1>8. CallInv /\ AnswerInv
  BY <1>4 DEF CallInv, AnswerInv
<1> QED BY <1>3, <1>5, <1>7, <1>8 DEF TalkInv

\* Requests and answers stay in order.
LEMMA TalkStep == TalkInv /\ [Next]_vars => TalkInv'
<1> SUFFICES ASSUME TalkInv, [Next]_vars
             PROVE  TalkInv'
  OBVIOUS
<1>1. ASSUME NEW p \in Peers, Handle(p)
      PROVE  TalkInv'
  BY <1>1, HandlerSteps, WorksTalk, GivesUpTalk, SendTalk
<1>2. ASSUME todo' = todo, asked' = asked, replies' = replies, silent' = silent,
             pc' = pc, outcome' = outcome
      PROVE  TalkInv'
  <2>1. Types' /\ AskedInv'
    BY <1>2 DEF TalkInv, Types, AskedInv
  <2>2. \A p : Done(p)' = Done(p) /\ Request(p)' = Request(p)
    BY <1>2 DEF Done, Request
  <2>3. TodoInv'
    BY <1>2, <2>2 DEF TalkInv, TodoInv
  <2>4. AnswerInv'
    BY <1>2, <2>2 DEF TalkInv, AnswerInv
  <2>5. CallInv'
    BY <1>2, <2>2 DEF TalkInv, CallInv
  <2> QED BY <2>1, <2>3, <2>4, <2>5 DEF TalkInv
<1>3. CASE RegisterWithTransport \/ DeleteIdentity \/ UNCHANGED vars
  BY <1>2, <1>3 DEF RegisterWithTransport, DeleteIdentity, vars, fixed
<1> QED BY <1>1, <1>3 DEF Next

\* Every request is answered at most once, by a message to its sender that the
\* controller takes for the answer to it, and never after it was given up, however
\* the handlers of the connections interleave (worker.go:72).
THEOREM WorkerAnswersOnce == Spec => []AnsweredOnce
<1>1. TalkInv => AnsweredOnce
  <2> SUFFICES ASSUME TalkInv, NEW p \in Peers
               PROVE  /\ \A i, j \in DOMAIN replies[p] :
                           replies[p][i].replyTo = replies[p][j].replyTo => i = j
                      /\ \A i \in DOMAIN replies[p] :
                           /\ replies[p][i].to = p
                           /\ \E r \in Requests(p) :
                                r.id = replies[p][i].replyTo /\ ValidReply(replies[p][i], r)
                           /\ \A s \in silent[p] : s.id # replies[p][i].replyTo
    BY DEF AnsweredOnce
  <2>1. DOMAIN replies[p] = 1..Len(replies[p])
    BY DEF TalkInv, Types
  <2>2. 1..Done(p) \subseteq DOMAIN asked[p]
    BY DEF TalkInv, Types, TodoInv, Done
  <2>3. ASSUME NEW i \in DOMAIN replies[p]
        PROVE  /\ replies[p][i].to = p
               /\ \E r \in Requests(p) :
                    r.id = replies[p][i].replyTo /\ ValidReply(replies[p][i], r)
    BY <2>1, <2>2, SMTT(30) DEF TalkInv, AnswerInv, IsReply, Requests, ValidReply
  <2> QED BY <2>1, <2>3 DEF TalkInv, AnswerInv
<1> QED BY <1>1, TalkInit, TalkStep, PTL DEF Spec

--------------------------------------------------------------------------------
(* Deployments. *)

\* What is installed has a directory and a sequence of entries.
LEMMA InstallsType ==
  ASSUME TalkInv, DeployInv, NEW p \in Peers, entry[p] > 0
  PROVE  /\ Request(p).dir \in Dirs
         /\ Request(p).bundle.entries \in Seq(Entries)
<1>1. Installs(p) /\ pc[p] # "idle"
  BY DEF DeployInv, EntryOf
<1>2. todo[p] \in Seq(AllRequests) /\ todo[p] # <<>>
  BY <1>1 DEF TalkInv, Types, CallInv
<1>3. Request(p) \in AllRequests
  BY <1>2 DEF Request
<1> QED BY <1>1, <1>3, WorkerAssumption DEF Installs

\* A step of p's handler writes in its own directory only, and counts a bundle
\* as installed only if it is alone there.
OthersSame(p) ==
    \A q \in Peers \ {p} :
      /\ todo'[q] = todo[q] /\ pc'[q] = pc[q] /\ entry'[q] = entry[q]
      /\ outcome'[q] = outcome[q] /\ (solo'[q] => solo[q])

WritesHere(p) == \A d \in Dirs : disk'[d] = disk[d] \/ (entry[p] > 0 /\ Request(p).dir = d)

InstallsHere(p) ==
    \A d \in Dirs : \/ installed'[d] \in {installed[d], Absent}
                    \/ entry[p] > 0 /\ solo[p] /\ Request(p).dir = d

\* Such a step disturbs no other deployment.
LEMMA Others ==
  ASSUME TalkInv, DeployInv, NEW p \in Peers, OthersSame(p), WritesHere(p), InstallsHere(p)
  PROVE  \A q \in Peers \ {p} : EntryOf(q)' /\ Extracted(q)'
<1> SUFFICES ASSUME NEW q \in Peers \ {p}
             PROVE  EntryOf(q)' /\ Extracted(q)'
  OBVIOUS
<1>1. /\ Request(q)' = Request(q) /\ pc'[q] = pc[q] /\ entry'[q] = entry[q]
      /\ outcome'[q] = outcome[q] /\ (solo'[q] => solo[q])
  BY DEF OthersSame, Request
<1>2. EntryOf(q) /\ Extracted(q)
  BY DEF DeployInv
<1>3. entry[q] > 0 => installed'[Request(q).dir] = Absent
  <2> SUFFICES ASSUME entry[q] > 0
               PROVE  installed'[Request(q).dir] = Absent
    OBVIOUS
  <2>1. Request(q).dir \in Dirs
    BY InstallsType
  <2>2. ~(entry[p] > 0 /\ solo[p] /\ Request(p).dir = Request(q).dir)
    BY DEF DeployInv, SoloInv
  <2>3. installed[Request(q).dir] = Absent
    BY <1>2 DEF EntryOf
  <2> QED BY <2>1, <2>2, <2>3 DEF InstallsHere
<1>4. entry[q] > 0 /\ solo[q] => disk'[Request(q).dir] = disk[Request(q).dir]
  <2> SUFFICES ASSUME entry[q] > 0, solo[q]
               PROVE  disk'[Request(q).dir] = disk[Request(q).dir]
    OBVIOUS
  <2>1. Request(q).dir \in Dirs
    BY InstallsType
  <2>2. ~(entry[p] > 0 /\ Request(p).dir = Request(q).dir)
    BY SMTT(30) DEF DeployInv, SoloInv
  <2> QED BY <2>1, <2>2 DEF WritesHere
<1>5. EntryOf(q)'
  BY <1>1, <1>2, <1>3 DEF EntryOf, Installs
<1>6. Extracted(q)'
  BY <1>1, <1>2, <1>4, Zenon DEF Extracted
<1> QED BY <1>5, <1>6

\* Deployments that are alone stay so until another one begins.
LEMMA SoloKept ==
  ASSUME SoloInv,
         \A q \in Peers : entry'[q] > 0 => entry[q] > 0 /\ todo'[q] = todo[q] /\ (solo'[q] => solo[q])
  PROVE  SoloInv'
  BY DEF SoloInv, Request

\* What counts as installed stays there while only other directories change.
LEMMA AckedKept ==
  ASSUME AckedIsInstalled,
         \A d \in Dirs : installed'[d] # Absent => installed'[d] = installed[d] /\ disk'[d] = disk[d]
  PROVE  AckedIsInstalled'
  BY Zenon DEF AckedIsInstalled

\* p's handler changes no file and deploys nothing.
Quiet(p) ==
    /\ entry[p] = 0 /\ pc'[p] \in {"idle", "start", "reply"}
    /\ \A q \in Peers \ {p} : todo'[q] = todo[q] /\ pc'[q] = pc[q] /\ outcome'[q] = outcome[q]
    /\ entry' = entry /\ disk' = disk /\ solo' = solo /\ installed' = installed

\* Handlers other than for a deployment, and deployments that are refused.
QuietHandle(p) ==
    \/ NotRegistered(p) \/ UnknownType(p)
    \/ handlePing(p) \/ handleGetStats(p) \/ handleStopMiner(p) \/ handleGetLogs(p)
    \/ handleStartMiner(p) \/ StartMiner(p) \/ handleDeployProfile(p) \/ handleDeployRefused(p)

\* The handlers that touch no installation are quiet steps.
LEMMA QuietHandlers ==
  ASSUME TalkInv, DeployInv, NEW p \in Peers, QuietHandle(p)
  PROVE  Quiet(p)
<1>1. pc[p] \in {"idle", "start"}
  BY Zenon DEF QuietHandle, NotRegistered, UnknownType, handlePing, handleGetStats, handleStopMiner,
         handleGetLogs, handleStartMiner, StartMiner, handleDeployProfile, handleDeployRefused,
         Handles, Ready
<1>2. entry[p] = 0
  <2>1. entry[p] \in Nat /\ EntryOf(p)
    BY DEF DeployInv, DeployTypes
  <2>2. ~(entry[p] > 0)
    BY <1>1, <2>1 DEF EntryOf
  <2> QED BY <2>1, <2>2
<1>3. entry' = entry /\ disk' = disk /\ solo' = solo /\ installed' = installed
  BY Zenon DEF QuietHandle, NotRegistered, UnknownType, handlePing, handleGetStats, handleStopMiner,
         handleGetLogs, handleStartMiner, StartMiner, handleDeployProfile, handleDeployRefused,
         external, hist
<1>4. CASE NotRegistered(p) \/ UnknownType(p)
  <2>1. pc' = pc /\ outcome' = outcome /\ todo' = [todo EXCEPT ![p] = Tail(@)] /\ pc[p] = "idle"
    BY <1>4, Zenon DEF NotRegistered, UnknownType, Handles, Ready
  <2> QED BY <1>2, <1>3, <2>1 DEF Quiet, TalkInv, Types
<1>5. CASE ~(NotRegistered(p) \/ UnknownType(p))
  <2>1. todo' = todo
    BY <1>5, Zenon DEF QuietHandle, handlePing, handleGetStats, handleStopMiner, handleGetLogs,
                handleStartMiner, StartMiner, handleDeployProfile, handleDeployRefused, Steady
  <2>2. \/ pc' = [pc EXCEPT ![p] = "start"] /\ outcome' = outcome
        \/ Fails(p) \/ Answers(p, TRUE) \/ Answers(p, FALSE)
    BY <1>5, Zenon DEF QuietHandle, handlePing, handleGetStats, handleStopMiner, handleGetLogs,
                handleStartMiner, StartMiner, handleDeployProfile, handleDeployRefused
  <2>3. pc'[p] \in {"start", "reply"}
    BY <2>2, Zenon DEF Fails, Answers, TalkInv, Types
  <2>4. \A q \in Peers \ {p} : pc'[q] = pc[q] /\ outcome'[q] = outcome[q]
    BY <2>2, Zenon DEF Fails, Answers, TalkInv, Types
  <2> QED BY <1>2, <1>3, <2>1, <2>3, <2>4 DEF Quiet
<1> QED BY <1>4, <1>5

\* A quiet step leaves every installation as it is.
LEMMA QuietStep ==
  ASSUME TalkInv, DeployInv, NEW p \in Peers, Quiet(p)
  PROVE  DeployInv'
<1>1. /\ entry[p] = 0 /\ pc'[p] \in {"idle", "start", "reply"}
      /\ entry' = entry /\ disk' = disk /\ solo' = solo /\ installed' = installed
      /\ \A q \in Peers \ {p} : todo'[q] = todo[q] /\ pc'[q] = pc[q] /\ outcome'[q] = outcome[q]
  BY DEF Quiet
<1>2. DeployTypes'
  BY <1>1 DEF DeployInv, DeployTypes
<1>3. SoloInv'
  BY <1>1, SoloKept DEF DeployInv
<1>4. AckedIsInstalled'
  BY <1>1, AckedKept DEF DeployInv
<1>5. EntryOf(p)' /\ Extracted(p)'
  <2>1. ~(entry'[p] > 0) /\ pc'[p] \notin {"extract", "write"}
    BY <1>1
  <2> QED BY <2>1, Zenon DEF EntryOf, Extracted
<1>6. \A q \in Peers \ {p} : EntryOf(q)' /\ Extracted(q)'
  <2>1. OthersSame(p)
    BY <1>1 DEF OthersSame
  <2>2. WritesHere(p)
    BY <1>1, Zenon DEF WritesHere
  <2>3. InstallsHere(p)
    BY <1>1 DEF InstallsHere
  <2> QED BY <2>1, <2>2, <2>3, Others
<1> QED BY <1>2, <1>3, <1>4, <1>5, <1>6 DEF DeployInv

\* A deployment fails: it leaves what it has extracted, but for the file that
\* was too large.
LEMMA FailedStep ==
  ASSUME TalkInv, DeployInv, NEW p \in Peers,
         ExtractFails(p) \/ WriteFails(p) \/ WriteOversize(p)
  PROVE  DeployInv'
<1> DEFINE d == Request(p).dir
<1>1. /\ entry[p] > 0
      /\ todo' = todo /\ entry' = entry /\ solo' = solo /\ installed' = installed
      /\ pc' = [pc EXCEPT ![p] = "reply"]
      /\ outcome' = [outcome EXCEPT ![p] = Reply(Request(p), "error", FALSE)]
  BY Zenon DEF ExtractFails, WriteFails, WriteOversize, Extracting, DeployInv, EntryOf, Steady, hist, Fails
<1>2. /\ pc'[p] = "reply" /\ outcome'[p].success = FALSE
      /\ \A q \in Peers \ {p} : pc'[q] = pc[q] /\ outcome'[q] = outcome[q]
  BY <1>1 DEF TalkInv, Types, Reply
<1>3. /\ disk' = [e \in Dirs |-> [f \in Files |-> disk'[e][f]]]
      /\ \A e \in Dirs : disk'[e] = disk[e] \/ d = e
  <2>1. \/ disk' = disk
        \/ disk' = [disk EXCEPT ![d][Entry(p).name] = Absent]
    BY DEF ExtractFails, WriteFails, WriteOversize, external
  <2>2. disk = [e \in Dirs |-> [f \in Files |-> disk[e][f]]]
    BY DEF DeployInv, DeployTypes
  <2> QED BY <2>1, <2>2
<1>4. DeployTypes'
  BY <1>1, <1>3 DEF DeployInv, DeployTypes
<1>5. SoloInv'
  BY <1>1, SoloKept, SMTT(30) DEF DeployInv
<1>6. EntryOf(p) /\ installed[d] = Absent
  BY <1>1 DEF DeployInv, EntryOf
<1>7. AckedIsInstalled'
  BY <1>1, <1>3, <1>6, AckedKept DEF DeployInv
<1>8. EntryOf(p)' /\ Extracted(p)'
  BY <1>1, <1>2, <1>6, Zenon DEF EntryOf, Extracted, Installs, Request
<1>9. \A q \in Peers \ {p} : EntryOf(q)' /\ Extracted(q)'
  <2>1. OthersSame(p)
    BY <1>1, <1>2 DEF OthersSame
  <2>2. WritesHere(p)
    BY <1>1, <1>3, ZenonT(30) DEF WritesHere
  <2>3. InstallsHere(p)
    BY <1>1 DEF InstallsHere
  <2> QED BY <2>1, <2>2, <2>3, Others
<1> QED BY <1>4, <1>5, <1>7, <1>8, <1>9 DEF DeployInv

\* A deployment begins, alone in its directory or not; or it is refused.
LEMMA BeginStep ==
  ASSUME TalkInv, DeployInv, NEW p \in Peers, handleDeployMiner(p)
  PROVE  DeployInv'
<1> DEFINE d == Request(p).dir
<1>1. /\ pc[p] = "idle" /\ todo[p] # <<>> /\ todo' = todo /\ disk' = disk
      /\ Request(p).type = "deploy" /\ Request(p).valid
      /\ BundleType(Request(p)) \in {"miner", "full"}
  BY DEF handleDeployMiner, Handles, Ready, Steady, external
<1>2. entry[p] = 0
  <2>1. entry[p] \in Nat /\ EntryOf(p)
    BY SMTT(30) DEF DeployInv, DeployTypes
  <2>2. ~(entry[p] > 0)
    BY <1>1, <2>1 DEF EntryOf
  <2> QED BY <2>1, <2>2
<1>3. CASE Fails(p) /\ UNCHANGED <<entry, hist>>
  <2>1. Quiet(p)
    BY <1>1, <1>2, <1>3 DEF Quiet, Fails, hist, TalkInv, Types
  <2> QED BY <2>1, QuietStep
<1>4. CASE /\ Extractable(p, Request(p).bundle)
           /\ pc' = [pc EXCEPT ![p] = "extract"]
           /\ entry' = [entry EXCEPT ![p] = 1]
           /\ solo' = [q \in Peers |-> IF q = p THEN Deploying(d) = {}
                                       ELSE solo[q] /\ q \notin Deploying(d)]
           /\ installed' = [installed EXCEPT ![d] = Absent]
           /\ UNCHANGED outcome
  <2>1. d \in Dirs
    <3>1. todo[p] \in Seq(AllRequests)
      BY DEF TalkInv, Types
    <3>2. Request(p) \in AllRequests
      BY <1>1, <3>1 DEF Request
    <3> QED BY <1>1, <3>2, WorkerAssumption
  <2>2. /\ entry'[p] = 1 /\ pc'[p] = "extract"
        /\ \A q \in Peers \ {p} : entry'[q] = entry[q] /\ pc'[q] = pc[q]
    BY <1>4 DEF TalkInv, Types, DeployInv, DeployTypes
  <2>3. \A q : Request(q)' = Request(q)
    BY <1>1, SMTT(30) DEF Request
  <2>4. \A q \in Peers : entry[q] > 0 /\ Request(q).dir = d => q \in Deploying(d)
    BY DEF DeployInv, EntryOf, Installs, Deploying
  <2>5. /\ solo'[p] => Deploying(d) = {}
        /\ \A q \in Peers \ {p} : solo'[q] => solo[q] /\ q \notin Deploying(d)
    BY <1>4, Zenon
  <2>6. SoloInv'
    <3> SUFFICES ASSUME NEW a \in Peers, NEW b \in Peers, entry'[a] > 0, entry'[b] > 0,
                        Request(a).dir = Request(b).dir, solo'[a], a # b
                 PROVE  FALSE
      BY <2>3, SMTT(30) DEF SoloInv
    <3>1. CASE a = p
      BY <2>2, <2>4, <2>5, <3>1, SMTT(30)
    <3>2. CASE b = p
      BY <2>2, <2>4, <2>5, <3>2, SMTT(30)
    <3>3. CASE a # p /\ b # p
      BY <2>2, <2>5, <3>3 DEF DeployInv, SoloInv
    <3> QED BY <3>1, <3>2, <3>3, SMTT(30)
  <2>7. DeployTypes'
    <3>1. entry' \in [Peers -> Nat]
      BY <1>4 DEF DeployInv, DeployTypes
    <3>2. solo' \in [Peers -> BOOLEAN]
      BY <1>4, Zenon
    <3>3. installed' = [e \in Dirs |-> installed'[e]]
      BY <1>4, Zenon DEF DeployInv, DeployTypes
    <3>4. disk' = [e \in Dirs |-> [f \in Files |-> disk'[e][f]]]
      BY <1>1, SMTT(30) DEF DeployInv, DeployTypes
    <3> QED BY <3>1, <3>2, <3>3, <3>4, SMTT(30) DEF DeployTypes
  <2>8. installed'[d] = Absent /\ \A e \in Dirs : installed'[e] \in {installed[e], Absent}
    BY <1>4, <2>1, SMTT(30) DEF DeployInv, DeployTypes
  <2>9. AckedIsInstalled'
    BY <1>1, <2>8, AckedKept, SMTT(30) DEF DeployInv
  <2>10. EntryOf(p)'
    <3>1. Installs(p)'
      BY <1>1, <1>4, <2>3, SMTT(30) DEF Installs
    <3> QED BY <2>2, <2>3, <2>8, <3>1, SMTT(30) DEF EntryOf
  <2>11. Extracted(p)'
    <3>1. \A b, files : Whole(b, files, 1, {})
      BY SMTT(30) DEF Whole
    <3> QED BY <2>2, <3>1, SMTT(30) DEF Extracted
  <2>12. OthersSame(p)
    BY <1>1, <1>4, <2>2, <2>5, SMTT(30) DEF OthersSame
  <2>13. WritesHere(p) /\ InstallsHere(p)
    BY <1>1, <2>8 DEF WritesHere, InstallsHere
  <2> QED BY <2>6, <2>7, <2>9, <2>10, <2>11, <2>12, <2>13, Others, SMTT(30) DEF DeployInv
<1> QED BY <1>3, <1>4, SMTT(30) DEF handleDeployMiner

\* An entry that is no file is passed over.
LEMMA PassStep ==
  ASSUME TalkInv, DeployInv, NEW p \in Peers, ExtractOther(p)
  PROVE  DeployInv'
<1> DEFINE b == Request(p).bundle
<1>1. /\ pc[p] = "extract" /\ b.entries[entry[p]].kind # "file"
      /\ entry' = [entry EXCEPT ![p] = @ + 1]
      /\ todo' = todo /\ disk' = disk /\ pc' = pc /\ outcome' = outcome
      /\ solo' = solo /\ installed' = installed
  BY DEF ExtractOther, Extracting, Entry, Steady, external, hist
<1>2. /\ entry \in [Peers -> Nat] /\ EntryOf(p) /\ Extracted(p)
  BY SMTT(30) DEF DeployInv, DeployTypes
<1>3. /\ entry[p] > 0 /\ entry'[p] = entry[p] + 1
      /\ \A q \in Peers \ {p} : entry'[q] = entry[q]
  BY <1>1, <1>2 DEF EntryOf
<1>4. DeployTypes'
  BY <1>1, SMTT(30) DEF DeployInv, DeployTypes
<1>5. SoloInv'
  BY <1>1, <1>3, SoloKept, SMTT(30) DEF DeployInv
<1>6. AckedIsInstalled'
  BY <1>1, AckedKept, SMTT(30) DEF DeployInv
<1>7. \A q : Request(q)' = Request(q)
  BY <1>1, SMTT(30) DEF Request
<1>8. EntryOf(p)'
  <2>1. Installs(p)' /\ installed'[Request(p).dir] = Absent
    BY <1>1, <1>2, <1>3, <1>7, SMTT(30) DEF EntryOf, Installs
  <2>2. pc'[p] = "extract" /\ entry'[p] > 0
    BY <1>1, <1>2, <1>3
  <2> QED BY <1>7, <2>1, <2>2, SMTT(30) DEF EntryOf
<1>9. Extracted(p)'
  <2> SUFFICES ASSUME solo[p]
               PROVE  Whole(b, disk[Request(p).dir], entry[p] + 1, {})
    BY <1>1, <1>3, <1>7, ZenonT(30) DEF Extracted
  <2>1. Whole(b, disk[Request(p).dir], entry[p], {})
    BY <1>1, <1>2, <1>3, SMTT(30) DEF Extracted
  <2>2. \A i \in 1..entry[p] : i \in 1..(entry[p] - 1) \/ ~IsFile(b, i)
    <3>1. \A i \in 1..entry[p] : i \in 1..(entry[p] - 1) \/ i = entry[p]
      BY <1>2, SMTT(30)
    <3>2. ~IsFile(b, entry[p])
      BY <1>1 DEF IsFile
    <3> QED BY <3>1, <3>2
  <2>3. (entry[p] + 1) - 1 = entry[p]
    BY <1>2, SMTT(30)
  <2> QED BY <2>1, <2>2, <2>3, Zenon DEF Whole
<1>10. OthersSame(p)
  BY <1>1, <1>3, SMTT(30) DEF OthersSame
<1>11. WritesHere(p) /\ InstallsHere(p)
  BY <1>1 DEF WritesHere, InstallsHere
<1> QED BY <1>4, <1>5, <1>6, <1>8, <1>9, <1>10, <1>11, Others, SMTT(30) DEF DeployInv

\* One file of one directory is written.
LEMMA OneFile ==
  ASSUME DeployTypes, NEW d \in Dirs, NEW n \in Files, NEW c,
         disk' = [disk EXCEPT ![d][n] = c]
  PROVE  /\ disk' = [e \in Dirs |-> [f \in Files |-> disk'[e][f]]]
         /\ \A e \in Dirs \ {d} : disk'[e] = disk[e]
         /\ disk'[d][n] = c
         /\ \A f \in Files \ {n} : disk'[d][f] = disk[d][f]
<1>1. disk = [e \in Dirs |-> [f \in Files |-> disk[e][f]]]
  BY DEF DeployTypes
<1> QED BY <1>1, Zenon

\* The file that a handler has before it is one of its bundle.
LEMMA FileType ==
  ASSUME TalkInv, DeployInv, NEW p \in Peers, entry[p] > 0,
         NEW i, IsFile(Request(p).bundle, i)
  PROVE  Request(p).bundle.entries[i].name \in Files
<1>1. Request(p).bundle.entries \in Seq(Entries)
  BY InstallsType
<1>2. Request(p).bundle.entries[i] \in Entries
  BY <1>1 DEF IsFile
<1> QED BY <1>2 DEF Entries

\* A file is created or emptied.
LEMMA OpenStep ==
  ASSUME TalkInv, DeployInv, NEW p \in Peers, OpenFile(p)
  PROVE  DeployInv'
<1> DEFINE b == Request(p).bundle
           d == Request(p).dir
           n == b.entries[entry[p]].name
<1>1. /\ pc[p] = "extract" /\ entry[p] <= Len(b.entries) /\ b.entries[entry[p]].kind = "file"
      /\ disk' = [disk EXCEPT ![d][n] = Contents(b, FALSE)]
      /\ pc' = [pc EXCEPT ![p] = "write"]
      /\ todo' = todo /\ entry' = entry /\ outcome' = outcome
      /\ solo' = solo /\ installed' = installed
  BY DEF OpenFile, Extracting, Entry, Steady, hist
<1>2. entry[p] \in Nat /\ EntryOf(p) /\ Extracted(p)
  BY SMTT(30) DEF DeployInv, DeployTypes
<1>3. entry[p] > 0 /\ installed[d] = Absent
  BY <1>1, <1>2 DEF EntryOf
<1>4. d \in Dirs /\ b.entries \in Seq(Entries)
  BY <1>3, InstallsType, SMTT(30)
<1>5. IsFile(b, entry[p])
  <2>1. Len(b.entries) \in Nat
    BY <1>4, SeqFacts, SMTT(30)
  <2>2. entry[p] \in 1..Len(b.entries)
    BY <1>1, <1>2, <1>3, <2>1, SMTT(30)
  <2> QED BY <1>1, <2>2 DEF IsFile
<1>6. n \in Files
  BY <1>3, <1>5, FileType, SMTT(30)
<1>7. /\ pc'[p] = "write"
      /\ \A q \in Peers \ {p} : pc'[q] = pc[q]
  BY <1>1 DEF TalkInv, Types
<1>8. \A q : Request(q)' = Request(q)
  BY <1>1, Zenon DEF Request
<1> HIDE DEF n
<1>9. /\ disk' = [e \in Dirs |-> [f \in Files |-> disk'[e][f]]]
      /\ \A e \in Dirs \ {d} : disk'[e] = disk[e]
      /\ disk'[d][n] = Contents(b, FALSE)
      /\ \A f \in Files \ {n} : disk'[d][f] = disk[d][f]
  <2>1. DeployTypes /\ disk' = [disk EXCEPT ![d][n] = Contents(b, FALSE)]
    BY <1>1, SMTT(30) DEF DeployInv
  <2> QED BY <1>4, <1>6, <2>1, OneFile, ZenonT(30)
<1>10. DeployTypes'
  BY <1>1, <1>9, SMTT(30) DEF DeployInv, DeployTypes
<1>11. SoloInv'
  BY <1>1, SoloKept, SMTT(30) DEF DeployInv
<1>12. AckedIsInstalled'
  BY <1>1, <1>3, <1>9, AckedKept, SMTT(30) DEF DeployInv
<1>13. EntryOf(p)'
  BY <1>1, <1>2, <1>3, <1>5, <1>7, <1>8, SMTT(30) DEF EntryOf, Installs
<1>14. Extracted(p)'
  <2> SUFFICES ASSUME solo[p]
               PROVE  Whole(b, disk'[d], entry[p], {n}) /\ disk'[d][n] = Contents(b, FALSE)
    BY <1>1, <1>7, <1>8, ZenonT(30) DEF Extracted, n
  <2>1. Whole(b, disk[d], entry[p], {})
    BY <1>1, <1>2, <1>3, SMTT(30) DEF Extracted
  <2>2. \A i : IsFile(b, i) => b.entries[i].name \in Files
    BY <1>3, FileType
  <2>3. Whole(b, disk'[d], entry[p], {n})
    BY <1>9, <2>1, <2>2, ZenonT(30) DEF Whole
  <2> QED BY <1>9, <2>3
<1>15. OthersSame(p)
  BY <1>1, <1>7 DEF OthersSame
<1>16. WritesHere(p)
  BY <1>3, <1>9 DEF WritesHere
<1>17. InstallsHere(p)
  BY <1>1 DEF InstallsHere
<1> QED BY <1>10, <1>11, <1>12, <1>13, <1>14, <1>15, <1>16, <1>17, Others, SMTT(30) DEF DeployInv

\* A file is written to its end.
LEMMA WriteStep ==
  ASSUME TalkInv, DeployInv, NEW p \in Peers, WriteFile(p)
  PROVE  DeployInv'
<1> DEFINE b == Request(p).bundle
           d == Request(p).dir
           n == b.entries[entry[p]].name
           c == IF disk[d][n] = Contents(b, FALSE) THEN Contents(b, TRUE) ELSE Mixed
<1>1. /\ pc[p] = "write"
      /\ disk' = [disk EXCEPT ![d][n] = c]
      /\ pc' = [pc EXCEPT ![p] = "extract"]
      /\ entry' = [entry EXCEPT ![p] = @ + 1]
      /\ todo' = todo /\ outcome' = outcome
      /\ solo' = solo /\ installed' = installed
  BY Zenon DEF WriteFile, Entry, Steady, hist
<1>2. entry \in [Peers -> Nat] /\ EntryOf(p) /\ Extracted(p)
  BY SMTT(30) DEF DeployInv, DeployTypes
<1>3. entry[p] > 0 /\ installed[d] = Absent /\ IsFile(b, entry[p])
  BY <1>1, <1>2 DEF EntryOf
<1>4. d \in Dirs /\ n \in Files
  <2>1. d \in Dirs
    BY <1>3, InstallsType
  <2>2. n \in Files
    BY <1>3, FileType, ZenonT(30)
  <2> QED BY <2>1, <2>2
<1>5. /\ pc'[p] = "extract" /\ entry'[p] = entry[p] + 1 /\ entry[p] \in Nat
      /\ \A q \in Peers \ {p} : pc'[q] = pc[q] /\ entry'[q] = entry[q]
  BY <1>1, <1>2 DEF TalkInv, Types
<1>6. \A q : Request(q)' = Request(q)
  BY <1>1, Zenon DEF Request
<1>7. solo[p] => Whole(b, disk[d], entry[p], {n}) /\ c = Contents(b, TRUE)
  BY <1>1, <1>2, <1>3, Zenon DEF Extracted
<1> HIDE DEF n, c
<1>8. /\ disk' = [e \in Dirs |-> [f \in Files |-> disk'[e][f]]]
      /\ \A e \in Dirs \ {d} : disk'[e] = disk[e]
      /\ disk'[d][n] = c
      /\ \A f \in Files \ {n} : disk'[d][f] = disk[d][f]
  BY <1>1, <1>4, OneFile, ZenonT(30) DEF DeployInv
<1>9. DeployTypes'
  <2>1. entry' \in [Peers -> Nat]
    BY <1>1, <1>2
  <2>2. solo' \in [Peers -> BOOLEAN] /\ installed' = [e \in Dirs |-> installed'[e]]
    BY <1>1, SMTT(30) DEF DeployInv, DeployTypes
  <2> QED BY <1>8, <2>1, <2>2 DEF DeployTypes
<1>10. SoloInv'
  BY <1>1, <1>3, <1>5, SoloKept, SMTT(30) DEF DeployInv
<1>11. AckedIsInstalled'
  BY <1>1, <1>3, <1>8, AckedKept, SMTT(30) DEF DeployInv
<1>12. EntryOf(p)'
  <2>1. Installs(p)' /\ installed'[Request(p).dir] = Absent
    BY <1>1, <1>2, <1>3, <1>6, SMTT(30) DEF EntryOf, Installs
  <2>2. pc'[p] = "extract" /\ entry'[p] > 0
    BY <1>3, <1>5
  <2> QED BY <1>6, <2>1, <2>2 DEF EntryOf
<1>13. Extracted(p)'
  <2> SUFFICES ASSUME solo[p]
               PROVE  Whole(b, disk'[d], entry[p] + 1, {})
    BY <1>1, <1>5, <1>6, Zenon DEF Extracted
  <2>1. Whole(b, disk[d], entry[p], {n}) /\ disk'[d][n] = Contents(b, TRUE)
    BY <1>7, <1>8, SMTT(30)
  <2>2. \A i : IsFile(b, i) => b.entries[i].name \in Files
    BY <1>3, FileType, SMTT(30)
  <2>3. \A i \in 1..entry[p] : i \in 1..(entry[p] - 1) \/ b.entries[i].name = n
    BY <1>5 DEF n
  <2>4. (entry[p] + 1) - 1 = entry[p]
    BY <1>5
  <2> QED BY <1>8, <2>1, <2>2, <2>3, <2>4, ZenonT(30) DEF Whole
<1>14. OthersSame(p)
  BY <1>1, <1>5 DEF OthersSame
<1>15. WritesHere(p)
  BY <1>3, <1>8 DEF WritesHere
<1>16. InstallsHere(p)
  BY <1>1, SMTT(30) DEF InstallsHere
<1> QED BY <1>9, <1>10, <1>11, <1>12, <1>13, <1>14, <1>15, <1>16, Others DEF DeployInv

\* Everything is extracted, and the deployment will be acknowledged.
LEMMA ExtractedStep ==
  ASSUME TalkInv, DeployInv, NEW p \in Peers, SaveBundledProfile(p)
  PROVE  DeployInv'
<1> DEFINE b == Request(p).bundle
           d == Request(p).dir
<1>1. /\ pc[p] = "extract" /\ ~(entry[p] <= Len(b.entries))
      /\ pc' = [pc EXCEPT ![p] = "reply"]
      /\ outcome' = [outcome EXCEPT ![p] = Reply(Request(p), ReplyType(Request(p).type), TRUE)]
      /\ todo' = todo /\ entry' = entry /\ disk' = disk
      /\ solo' = solo /\ installed' = installed
  BY SMTT(30) DEF SaveBundledProfile, Extracting, Answers, Steady, hist
<1>2. entry[p] \in Nat /\ EntryOf(p) /\ Extracted(p)
  BY DEF DeployInv, DeployTypes
<1>3. entry[p] > 0
  BY <1>1, <1>2 DEF EntryOf
<1>4. /\ pc'[p] = "reply"
      /\ \A q \in Peers \ {p} : pc'[q] = pc[q] /\ outcome'[q] = outcome[q]
  BY <1>1 DEF TalkInv, Types
<1>5. \A q : Request(q)' = Request(q)
  BY <1>1, SMTT(30) DEF Request
<1>6. DeployTypes'
  BY <1>1, SMTT(30) DEF DeployInv, DeployTypes
<1>7. SoloInv'
  BY <1>1, SoloKept, SMTT(30) DEF DeployInv
<1>8. AckedIsInstalled'
  BY <1>1, AckedKept DEF DeployInv
<1>9. EntryOf(p)'
  BY <1>1, <1>2, <1>4, <1>5, Zenon DEF EntryOf, Installs
<1>10. Extracted(p)'
  <2> SUFFICES ASSUME solo[p]
               PROVE  Whole(b, disk[d], Len(b.entries) + 1, {})
    BY <1>1, <1>4, <1>5, Zenon DEF Extracted
  <2>1. Whole(b, disk[d], entry[p], {})
    BY <1>1, <1>2, <1>3, Zenon DEF Extracted
  <2>2. Len(b.entries) \in Nat
    <3>1. b.entries \in Seq(Entries)
      BY <1>3, InstallsType
    <3> QED BY <3>1, SeqFacts
  <2>3. \A i \in 1..((Len(b.entries) + 1) - 1) : i \in 1..(entry[p] - 1)
    <3> DEFINE n == Len(b.entries)
               k == entry[p]
    <3>1. n \in Nat /\ k \in Nat /\ ~(k <= n)
      BY <1>1, <1>2, <2>2
    <3> HIDE DEF n, k
    <3>2. \A i \in 1..((n + 1) - 1) : i \in 1..(k - 1)
      BY <3>1, SMTT(30)
    <3> QED BY <3>2, SMTT(30) DEF n, k
  <2> QED BY <2>1, <2>3, Zenon DEF Whole
<1>11. OthersSame(p)
  BY <1>1, <1>4, SMTT(30) DEF OthersSame
<1>12. WritesHere(p) /\ InstallsHere(p)
  BY <1>1 DEF WritesHere, InstallsHere
<1> QED BY <1>6, <1>7, <1>8, <1>9, <1>10, <1>11, <1>12, Others DEF DeployInv

\* The answer is sent or not, and the read loop goes on.  A deployment that is
\* acknowledged, and alone, counts as installed from then on.
LEMMA FinishStep ==
  ASSUME TalkInv, DeployInv, NEW p \in Peers, SendReply(p) \/ SendFails(p)
  PROVE  DeployInv'
<1> DEFINE b == Request(p).bundle
           d == Request(p).dir
           acked == outcome[p].success /\ entry[p] > 0 /\ solo[p]
<1>1. /\ pc[p] = "reply"
      /\ pc' = [pc EXCEPT ![p] = "idle"] /\ entry' = [entry EXCEPT ![p] = 0]
      /\ todo' = [todo EXCEPT ![p] = Tail(@)]
      /\ outcome' = outcome /\ disk' = disk /\ solo' = solo
  BY Zenon DEF SendReply, SendFails, Finish, external
<1>2. installed' = installed \/ (acked /\ installed' = [installed EXCEPT ![d] = b])
  BY Zenon DEF SendReply, SendFails
<1>3. entry \in [Peers -> Nat] /\ EntryOf(p) /\ Extracted(p)
  BY DEF DeployInv, DeployTypes
<1>4. pc'[p] = "idle" /\ entry'[p] = 0
  BY <1>1, <1>3 DEF TalkInv, Types
<1>5. \A q \in Peers \ {p} : pc'[q] = pc[q] /\ entry'[q] = entry[q] /\ todo'[q] = todo[q]
  BY <1>1, <1>3 DEF TalkInv, Types
<1>6. DeployTypes'
  <2>1. entry' \in [Peers -> Nat]
    BY <1>1, <1>3
  <2>2. solo' \in [Peers -> BOOLEAN] /\ disk' = [e \in Dirs |-> [f \in Files |-> disk'[e][f]]]
    BY <1>1 DEF DeployInv, DeployTypes
  <2>3. installed' = [e \in Dirs |-> installed'[e]]
    BY <1>2 DEF DeployInv, DeployTypes
  <2> QED BY <2>1, <2>2, <2>3 DEF DeployTypes
<1>7. SoloInv'
  <2>1. ~(entry'[p] > 0)
    BY <1>4, SMTT(30)
  <2> QED BY <1>1, <1>5, <2>1, SoloKept DEF DeployInv
<1>8. AckedIsInstalled'
  <2>1. CASE installed' = installed
    BY <1>1, <2>1, AckedKept DEF DeployInv
  <2>2. CASE acked /\ installed' = [installed EXCEPT ![d] = b]
    <3>1. d \in Dirs /\ b.entries \in Seq(Entries)
      BY <2>2, InstallsType, SMTT(30)
    <3>2. Whole(b, disk[d], Len(b.entries) + 1, {})
      BY <1>1, <1>3, <2>2 DEF Extracted
    <3>3. ASSUME NEW f \in FilesOf(b)
          PROVE  disk[d][f] = Contents(b, TRUE)
      <4>1. PICK i \in DOMAIN b.entries : b.entries[i].kind = "file" /\ b.entries[i].name = f
        BY DEF FilesOf
      <4>2. Len(b.entries) \in Nat /\ DOMAIN b.entries = 1..Len(b.entries)
        BY <3>1, SeqFacts, SMTT(30)
      <4>3. i \in 1..((Len(b.entries) + 1) - 1)
        BY <4>2, SMTT(30)
      <4>4. IsFile(b, i)
        BY <4>1, <4>2 DEF IsFile
      <4> QED BY <3>2, <4>1, <4>3, <4>4, ZenonT(30) DEF Whole
    <3>4. /\ installed'[d] = b
          /\ \A e \in Dirs \ {d} : installed'[e] = installed[e]
      BY <2>2, <3>1 DEF DeployInv, DeployTypes
    <3> QED BY <1>1, <3>3, <3>4, ZenonT(30) DEF DeployInv, AckedIsInstalled
  <2> QED BY <1>2, <2>1, <2>2, SMTT(30)
<1>9. EntryOf(p)' /\ Extracted(p)'
  <2>1. ~(entry'[p] > 0) /\ pc'[p] \notin {"extract", "write"}
    BY <1>4, SMTT(30)
  <2> QED BY <2>1, ZenonT(30) DEF EntryOf, Extracted
<1>10. OthersSame(p)
  BY <1>1, <1>5, SMTT(30) DEF OthersSame
<1>11. WritesHere(p)
  BY <1>1 DEF WritesHere
<1>12. InstallsHere(p)
  BY <1>2 DEF InstallsHere, DeployInv, DeployTypes
<1> QED BY <1>6, <1>7, <1>8, <1>9, <1>10, <1>11, <1>12, Others DEF DeployInv

\* Deployments are in order initially.
LEMMA DeployInit == Init => DeployInv
<1> SUFFICES ASSUME Init
             PROVE  DeployInv
  OBVIOUS
<1>1. /\ entry = [p \in Peers |-> 0] /\ pc = [p \in Peers |-> "idle"]
      /\ solo = [p \in Peers |-> TRUE] /\ installed = [d \in Dirs |-> Absent]
      /\ disk = [d \in Dirs |-> [f \in Files |-> Absent]]
  BY DEF Init
<1>2. DeployTypes /\ SoloInv /\ AckedIsInstalled
  BY <1>1 DEF DeployTypes, SoloInv, AckedIsInstalled
<1>3. \A p \in Peers : ~(entry[p] > 0) /\ pc[p] = "idle"
  BY <1>1
<1>4. \A p \in Peers : EntryOf(p) /\ Extracted(p)
  BY <1>3, Zenon DEF EntryOf, Extracted
<1> QED BY <1>2, <1>4 DEF DeployInv

\* Deployments stay in order.
LEMMA DeployStep == TalkInv /\ DeployInv /\ [Next]_vars => DeployInv'
<1> SUFFICES ASSUME TalkInv, DeployInv, [Next]_vars
             PROVE  DeployInv'
  BY SMTT(30)
<1>1. ASSUME NEW p \in Peers, Handle(p)
      PROVE  DeployInv'
  BY <1>1, QuietHandlers, QuietStep, BeginStep, PassStep, FailedStep, OpenStep, WriteStep,
     ExtractedStep, FinishStep, SMTT(30) DEF Handle, QuietHandle
<1>2. CASE RegisterWithTransport \/ DeleteIdentity \/ UNCHANGED vars
  <2>1. /\ todo' = todo /\ pc' = pc /\ entry' = entry /\ outcome' = outcome
        /\ disk' = disk /\ solo' = solo /\ installed' = installed
    BY <1>2 DEF RegisterWithTransport, DeleteIdentity, vars, external, hist
  <2>2. \A p : Request(p)' = Request(p)
    BY <2>1 DEF Request
  <2>3. \A p \in Peers : EntryOf(p)' /\ Extracted(p)'
    BY <2>1, <2>2, ZenonT(30) DEF DeployInv, EntryOf, Installs, Extracted
  <2>4. DeployTypes'
    BY <2>1 DEF DeployInv, DeployTypes
  <2>5. SoloInv' /\ AckedIsInstalled'
    BY <2>1, SoloKept, AckedKept, Zenon DEF DeployInv
  <2> QED BY <2>3, <2>4, <2>5, SMTT(30) DEF DeployInv
<1> QED BY <1>1, <1>2 DEF Next

\* When a peer has been told that its bundle is deployed, and no other deployment
\* into that directory overlapped or came after it, every file of the bundle is
\* there, whole; whatever other deployments do, and wherever they fail
\* (worker.go:356, bundle.go).
THEOREM WorkerAckedIsInstalled == Spec => []AckedIsInstalled
<1>1. DeployInv => AckedIsInstalled
  BY DEF DeployInv
<1> QED BY <1>1, TalkInit, TalkStep, DeployInit, DeployStep, PTL DEF Spec

--------------------------------------------------------------------------------
(* What is kept. *)

\* The request under way is one that the peer has sent.
LEMMA RequestIsSent ==
  ASSUME TalkInv, NEW p \in Peers, todo[p] # <<>>
  PROVE  Sent(p, Request(p).bundle)
<1>1. asked[p] \in Seq(AllRequests) /\ todo[p] \in Seq(AllRequests)
  BY SMTT(30) DEF TalkInv, Types
<1>2. /\ Len(todo[p]) \in Nat /\ Len(todo[p]) > 0
      /\ Len(asked[p]) \in Nat /\ DOMAIN asked[p] = 1..Len(asked[p])
  BY <1>1, SeqFacts, SMTT(30)
<1>3. Len(todo[p]) <= Len(asked[p])
  BY DEF TalkInv, TodoInv
<1>4. \A i \in 1..Len(todo[p]) : todo[p][i] = asked[p][Done(p) + i]
  BY DEF TalkInv, TodoInv
<1>5. Done(p) + 1 \in DOMAIN asked[p]
  <2> DEFINE n == Len(asked[p])
             k == Len(todo[p])
  <2>1. n \in Nat /\ k \in Nat /\ k > 0 /\ k <= n /\ Done(p) = n - k
    BY <1>2, <1>3 DEF Done
  <2> HIDE DEF n, k
  <2>2. Done(p) + 1 \in 1..n
    BY <2>1
  <2> QED BY <1>2, <2>2 DEF n
<1>6. Request(p) = asked[p][Done(p) + 1]
  <2>1. Request(p) = todo[p][1]
    BY <1>1 DEF Request
  <2>2. 1 \in 1..Len(todo[p])
    BY <1>2
  <2> QED BY <1>4, <2>1, <2>2
<1> QED BY <1>5, <1>6, Zenon DEF Sent, Requests

\* A bundle that was verified for the sender of a request, whole or in part.
Verified(b) == \E p \in Peers : Sent(p, b) /\ b.checksum /\ b.secret = p
VerifiedProfile(b) == \E p \in Peers : Sent(p, b) /\ b.checksum /\ (b.secret = p \/ b.plain)

\* Whatever a step adds to the files or the profiles is of a verified bundle.
LEMMA KeptStep == TalkInv /\ DeployInv /\ OnlyVerifiedIsKept /\ [Next]_vars => OnlyVerifiedIsKept'
<1> SUFFICES ASSUME TalkInv, DeployInv, OnlyVerifiedIsKept, [Next]_vars
             PROVE  OnlyVerifiedIsKept'
  OBVIOUS
<1>1. asked' = asked
  <2>1. ASSUME NEW p \in Peers, Handle(p)
        PROVE  asked' = asked
    BY <2>1, HandlerSteps, SMTT(30) DEF Works, GivesUp, SendReply, Finish, fixed
  <2>2. CASE RegisterWithTransport \/ DeleteIdentity \/ UNCHANGED vars
    BY <2>2 DEF RegisterWithTransport, DeleteIdentity, vars, fixed
  <2>3. \/ \E p \in Peers : Handle(p)
        \/ RegisterWithTransport \/ DeleteIdentity \/ UNCHANGED vars
    BY SMTT(30) DEF Next
  <2> QED BY <2>1, <2>2, <2>3, ZenonT(30)
<1>2. \A b : /\ Verified(b)' <=> Verified(b)
             /\ VerifiedProfile(b)' <=> VerifiedProfile(b)
  BY <1>1, SMTT(30) DEF Verified, VerifiedProfile, Sent, Requests
<1>3. /\ \A d \in Dirs, f \in Files :
           disk[d][f] \notin {Absent, Mixed} => Verified(disk[d][f].bundle)
      /\ \A s \in profiles : VerifiedProfile(s.bundle)
  BY SMTT(30) DEF OnlyVerifiedIsKept, Verified, VerifiedProfile
<1>4. ASSUME NEW p \in Peers, entry[p] > 0
      PROVE  Verified(Request(p).bundle) /\ VerifiedProfile(Request(p).bundle)
  <2>1. Installs(p) /\ todo[p] # <<>>
    BY <1>4, SMTT(30) DEF TalkInv, CallInv, DeployInv, EntryOf
  <2> QED BY <2>1, RequestIsSent, SMTT(30) DEF Installs, Extractable, Verified, VerifiedProfile
<1>5. \A d \in Dirs, f \in Files :
        disk'[d][f] \notin {Absent, Mixed} => Verified(disk'[d][f].bundle)
  <2>1. CASE disk' = disk
    BY <1>3, <2>1, SMTT(30)
  <2>2. ASSUME NEW p \in Peers, OpenFile(p) \/ WriteFile(p) \/ WriteOversize(p)
        PROVE  \A d \in Dirs, f \in Files :
                 disk'[d][f] \notin {Absent, Mixed} => Verified(disk'[d][f].bundle)
    <3> DEFINE b == Request(p).bundle
    <3>1. entry[p] > 0
      BY <2>2 DEF OpenFile, WriteFile, WriteOversize, Extracting, DeployInv, EntryOf
    <3>2. PICK c \in {Contents(b, TRUE), Contents(b, FALSE), Absent, Mixed} :
            disk' = [disk EXCEPT ![Request(p).dir][Entry(p).name] = c]
      BY <2>2, Zenon DEF OpenFile, WriteFile, WriteOversize
    <3>3. disk = [d \in Dirs |-> [f \in Files |-> disk[d][f]]]
      BY DEF DeployInv, DeployTypes
    <3>4. \A d \in Dirs, f \in Files : disk'[d][f] \in {disk[d][f], c}
      BY <3>2, <3>3
    <3>5. c \notin {Absent, Mixed} => c.bundle = b
      BY <3>2 DEF Contents
    <3> QED BY <1>3, <1>4, <3>1, <3>4, <3>5, SMTT(30)
  <2>3. ASSUME NEW p \in Peers, Handle(p), ~(OpenFile(p) \/ WriteFile(p) \/ WriteOversize(p))
        PROVE  disk' = disk
    <3>1. CASE QuietHandle(p)
      BY <3>1, QuietHandlers, SMTT(30) DEF Quiet
    <3>2. CASE handleDeployMiner(p) \/ ExtractOther(p) \/ ExtractFails(p) \/ WriteFails(p)
      BY <3>2 DEF handleDeployMiner, ExtractOther, ExtractFails, WriteFails, external
    <3>3. CASE SaveBundledProfile(p) \/ SendReply(p) \/ SendFails(p)
      BY <3>3, ZenonT(30) DEF SaveBundledProfile, SendReply, SendFails, Finish, external
    <3> QED BY <2>3, <3>1, <3>2, <3>3, ZenonT(30) DEF Handle, QuietHandle
  <2>4. CASE RegisterWithTransport \/ DeleteIdentity \/ UNCHANGED vars
    BY <2>1, <2>4 DEF RegisterWithTransport, DeleteIdentity, vars, external
  <2> QED BY <2>1, <2>2, <2>3, <2>4 DEF Next
<1>6. \A s \in profiles' : VerifiedProfile(s.bundle)
  <2>1. CASE profiles' = profiles
    BY <1>3, <2>1, SMTT(30)
  <2>2. ASSUME NEW p \in Peers, handleDeployProfile(p)
        PROVE  \A s \in profiles' : VerifiedProfile(s.bundle)
    <3> DEFINE b == Request(p).bundle
    <3>1. \/ profiles' = profiles
          \/ /\ ProfileExtractable(p, b)
             /\ profiles' = profiles \cup {[profile |-> b.profile, bundle |-> b]}
      BY <2>2, ZenonT(30) DEF handleDeployProfile
    <3>2. Sent(p, b)
      BY <2>2, RequestIsSent DEF handleDeployProfile, Handles, Ready
    <3>3. ProfileExtractable(p, b) => VerifiedProfile(b)
      BY <3>2, SMTT(30) DEF ProfileExtractable, VerifiedProfile
    <3>4. \A s \in profiles' : s \in profiles \/ (s.bundle = b /\ VerifiedProfile(b))
      BY <3>1, <3>3, SMTT(30)
    <3> QED BY <1>3, <3>4
  <2>3. ASSUME NEW p \in Peers, SaveBundledProfile(p)
        PROVE  \A s \in profiles' : VerifiedProfile(s.bundle)
    <3> DEFINE b == Request(p).bundle
    <3>1. \/ profiles' = profiles
          \/ profiles' = profiles \cup {[profile |-> b.profile, bundle |-> b]}
      BY <2>3 DEF SaveBundledProfile
    <3>2. entry[p] > 0
      BY <2>3, Zenon DEF SaveBundledProfile, DeployInv, EntryOf
    <3>3. VerifiedProfile(b)
      BY <1>4, <3>2, SMTT(30)
    <3> QED BY <1>3, <3>1, <3>3, SMTT(30)
  <2>4. ASSUME NEW p \in Peers, Handle(p), ~(handleDeployProfile(p) \/ SaveBundledProfile(p))
        PROVE  profiles' = profiles
    <3>1. CASE NotRegistered(p) \/ UnknownType(p) \/ handlePing(p) \/ handleGetStats(p)
      BY <3>1, Zenon DEF NotRegistered, UnknownType, handlePing, handleGetStats, external
    <3>2. CASE handleStopMiner(p) \/ handleGetLogs(p) \/ handleStartMiner(p) \/ StartMiner(p)
      BY <3>2, ZenonT(30) DEF handleStopMiner, handleGetLogs, handleStartMiner, StartMiner, external
    <3>3. CASE handleDeployMiner(p) \/ handleDeployRefused(p) \/ ExtractOther(p) \/ ExtractFails(p)
      BY <3>3, SMTT(30) DEF handleDeployMiner, handleDeployRefused, ExtractOther, ExtractFails, external
    <3>4. CASE OpenFile(p) \/ WriteFile(p) \/ WriteFails(p) \/ WriteOversize(p)
      BY <3>4 DEF OpenFile, WriteFile, WriteFails, WriteOversize, external
    <3>5. CASE SendReply(p) \/ SendFails(p)
      BY <3>5, ZenonT(30) DEF SendReply, SendFails, Finish, external
    <3> QED BY <2>4, <3>1, <3>2, <3>3, <3>4, <3>5 DEF Handle
  <2>5. CASE RegisterWithTransport \/ DeleteIdentity \/ UNCHANGED vars
    BY <2>1, <2>5 DEF RegisterWithTransport, DeleteIdentity, vars, external
  <2> QED BY <2>1, <2>2, <2>3, <2>4, <2>5, SMTT(30) DEF Next
<1> QED BY <1>2, <1>5, <1>6, Zenon DEF OnlyVerifiedIsKept, Verified, VerifiedProfile

\* Whatever is in an installation directory or among the profiles came from a
\* bundle whose checksum matched and which its sender's connection could decrypt,
\* or from a plain profile; failed and overlapping deployments too
\* (worker.go:356, bundle.go).
THEOREM WorkerKeepsOnlyVerified == Spec => []OnlyVerifiedIsKept
<1>1. Init => OnlyVerifiedIsKept
  <2>1. Init => profiles = {} /\ disk = [d \in Dirs |-> [f \in Files |-> Absent]]
    BY DEF Init
  <2> QED BY <2>1 DEF OnlyVerifiedIsKept
<1> QED BY <1>1, TalkInit, TalkStep, DeployInit, DeployStep, KeptStep, PTL DEF Spec
================================================================================
