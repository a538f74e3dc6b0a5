-------------------------- MODULE HandshakeProofs --------------------------
(***************************************************************************)
(* The handshake between a control center and an agent, for any number of  *)
(* connections and addresses, any limits, any capacity of the sockets,     *)
(* with any token on the one side and with or without one on the other.    *)
(* The composition is a behaviour of the agent's server, so the invariants *)
(* of AgentServerProofs hold in it.                                        *)
(***************************************************************************)
EXTENDS Handshake, AgentServerProofs

(* Reading, sending and losing messages on the control center's side       *)
(* leaves the agent alone, and the agent's own steps are those of its      *)
(* server.                                                                 *)
LEMMA ServerStep ==
  ASSUME [HandshakeNext]_allVars
  PROVE  [Next]_vars
  <1>1. CASE UNCHANGED allVars
    BY <1>1 DEF allVars
  <1>2. ASSUME NEW c \in Conns,
               \/ ReadGreeting(c) \/ SendCredentials(c) \/ ReadReply(c)
               \/ LoseHandshake(c) \/ Drain(c) \/ SendRequest(c)
        PROVE  UNCHANGED vars
    BY <1>2 DEF ReadGreeting, SendCredentials, ReadReply, LoseHandshake, Drain, SendRequest
  <1>3. ASSUME NEW c \in Conns, AgentReads(c) \/ AgentWrites(c)
        PROVE  Next
    <2>1. Reading(c) \/ Writer(c)
      BY <1>3 DEF AgentReads, AgentWrites, Reading, Writer
    <2> QED
      BY <2>1 DEF Next
  <1>4. ASSUME NEW c \in Conns, AgentSteps(c)
        PROVE  Next
    <2>1. \/ Admit(c) \/ Handler(c) \/ Handling(c) \/ ReadError(c) \/ Leaving(c)
          \/ Writer(c) \/ Push(c) \/ Timer(c)
      BY <1>4 DEF AgentSteps, Writer
    <2> QED
      BY <2>1 DEF Next
  <1> QED
    BY <1>1, <1>2, <1>3, <1>4 DEF HandshakeNext

(* Connected to a control center the agent does nothing it would not do on *)
(* its own: what is proved of Spec holds in the composition.               *)
THEOREM HandshakeRefinesServer == HandshakeSpec => Spec
  <1>1. HandshakeInit => Init
    BY DEF HandshakeInit
  <1>2. [HandshakeNext]_allVars => [Next]_vars
    BY ServerStep
  <1> QED
    BY <1>1, <1>2, PTL DEF HandshakeSpec, Spec

----------------------------------------------------------------------------
(* Messages of a sequence.                                                 *)

Within(seq, kinds) == \A i \in 1 .. Len(seq) : seq[i] \in kinds

LEMMA WithinAppend ==
  ASSUME NEW S, NEW seq \in Seq(S), NEW kinds, NEW m \in S, Within(seq, kinds), m \in kinds
  PROVE  Within(Append(seq, m), kinds)
  BY DEF Within

LEMMA WithinTail ==
  ASSUME NEW S, NEW seq \in Seq(S), NEW kinds, seq # <<>>, Within(seq, kinds)
  PROVE  Within(Tail(seq), kinds) /\ Head(seq) \in kinds
  <1>1. /\ Len(seq) \in Nat /\ Len(seq) >= 1 /\ Len(Tail(seq)) = Len(seq) - 1
        /\ Head(seq) = seq[1]
        /\ \A i \in 1 .. Len(seq) - 1 : Tail(seq)[i] = seq[i + 1] /\ i + 1 \in 1 .. Len(seq)
    OBVIOUS
  <1> QED
    BY <1>1 DEF Within

----------------------------------------------------------------------------

PeerTypes ==
    /\ kpc \in [Conns -> {"greeting", "sending", "waiting", "established", "noToken",
                          "rejected", "unexpected", "lost"}]
    /\ inbox \in [Conns -> Seq(Kinds)]
    /\ outbox \in [Conns -> Seq({"auth", "request"})]

(* The types of the server's variables that matter to its peer.            *)
ServerTypes == SlotInv /\ AuthInv /\ AnswerInv /\ OtherTypes

Calm == Kinds \ {"error"}

(* The agent has refused a token.                                          *)
Refused(c) == token = "wrong" /\ attempts[c] > 0

(* Who authenticated, and what an unauthenticated peer can have been told. *)
AcceptanceOf(c) ==
    /\ authed[c] /\ TokenSet => token = "right"
    /\ ~TokenSet /\ rpc[c] # "off" => authed[c]
    /\ ~authed[c] => Within(inbox[c], Greeting)
    /\ kpc[c] = "established" => authed[c]

(* Before the handshake succeeds only credentials go out, and an error     *)
(* that is on its way anywhere is the refusal of a token.                  *)
RefusalOf(c) ==
    /\ kpc[c] # "established" =>
         /\ Within(outbox[c], {"auth"})
         /\ rpc[c] \notin {"denied", "working"}
         /\ ~Refused(c) => rpc[c] # "authReject" /\ Within(send[c], Calm) /\ Within(inbox[c], Calm)
    /\ kpc[c] = "rejected" => Refused(c)

(* The inductive invariant of the composition.                             *)
PeerInv == PeerTypes /\ \A c \in Conns : AcceptanceOf(c) /\ RefusalOf(c)

(* A step that concerns one connection keeps what holds of the others.     *)
LEMMA OnePeerStep ==
  ASSUME PeerInv, PeerTypes', token' = token, NEW c \in Conns,
         AcceptanceOf(c)', RefusalOf(c)',
         \A d \in Conns \ {c} :
             /\ kpc'[d] = kpc[d] /\ inbox'[d] = inbox[d] /\ outbox'[d] = outbox[d]
             /\ authed'[d] = authed[d] /\ attempts'[d] = attempts[d]
             /\ rpc'[d] = rpc[d] /\ send'[d] = send[d]
  PROVE  PeerInv'
  <1>1. ASSUME NEW d \in Conns \ {c}
        PROVE  AcceptanceOf(d)' /\ RefusalOf(d)'
    <2>1. AcceptanceOf(d) /\ RefusalOf(d)
      BY DEF PeerInv
    <2>2. /\ kpc'[d] = kpc[d] /\ inbox'[d] = inbox[d] /\ outbox'[d] = outbox[d]
          /\ authed'[d] = authed[d] /\ attempts'[d] = attempts[d]
          /\ rpc'[d] = rpc[d] /\ send'[d] = send[d]
      OBVIOUS
    <2> QED
      BY <2>1, <2>2 DEF AcceptanceOf, RefusalOf, Refused
  <1> QED
    BY <1>1 DEF PeerInv

(* The control center takes a message off the socket.                      *)
LEMMA ReceiveStep ==
  ASSUME ServerTypes, PeerInv, NEW c \in Conns, Receive(c),
         UNCHANGED <<vars, token, outbox>>,
         \/ kpc[c] = "established" /\ kpc' = kpc
         \/ Step(kpc, c, "greeting", AfterGreeting(Head(inbox[c])))
         \/ Step(kpc, c, "waiting", AfterReply(Head(inbox[c])))
  PROVE  PeerInv'
  <1> DEFINE m == Head(inbox[c])
  <1>1. /\ inbox[c] \in Seq(Kinds) /\ inbox[c] # <<>> /\ inbox' = [inbox EXCEPT ![c] = Tail(@)]
        /\ m \in Kinds
    BY DEF Receive, PeerInv, PeerTypes
  <1>2. /\ inbox'[c] = Tail(inbox[c]) /\ \A d \in Conns \ {c} : inbox'[d] = inbox[d]
        /\ inbox' \in [Conns -> Seq(Kinds)]
    BY <1>1 DEF PeerInv, PeerTypes
  <1>3. \A kinds : Within(inbox[c], kinds) => Within(inbox'[c], kinds) /\ m \in kinds
    BY <1>1, <1>2, WithinTail
  <1>4. UNCHANGED <<authed, attempts, rpc, send, token, outbox>>
    BY DEF vars, authVars, traffic
  <1>5. authed[c] \/ m \in Greeting
    BY <1>3 DEF PeerInv, AcceptanceOf
  <1> HIDE DEF m
  <1>6. /\ kpc' \in [Conns -> {"greeting", "sending", "waiting", "established", "noToken",
                               "rejected", "unexpected", "lost"}]
        /\ \A d \in Conns \ {c} : kpc'[d] = kpc[d]
        /\ kpc[c] = "established" => kpc'[c] = "established"
        /\ kpc'[c] = "established" => kpc[c] = "established" \/ m \in {"agent_info", "auth_ok"}
        /\ kpc'[c] = "rejected" => kpc[c] = "waiting" /\ m = "error"
    BY <1>1 DEF Step, AfterGreeting, AfterReply, PeerInv, PeerTypes, m
  <1>7. PeerTypes'
    BY <1>2, <1>4, <1>6 DEF PeerInv, PeerTypes
  <1>8. kpc'[c] = "established" => authed[c]
    BY <1>5, <1>6 DEF PeerInv, AcceptanceOf, Greeting
  <1>9. AcceptanceOf(c)'
    BY <1>3, <1>4, <1>8 DEF PeerInv, AcceptanceOf
  <1>10. kpc'[c] = "rejected" => Refused(c)
    BY <1>3, <1>6 DEF PeerInv, RefusalOf, Calm
  <1>11. RefusalOf(c)'
    BY <1>3, <1>4, <1>6, <1>10 DEF PeerInv, RefusalOf, Refused
  <1> QED
    BY <1>2, <1>4, <1>6, <1>7, <1>9, <1>11, OnePeerStep

(* The control center sends its credentials, gives up, or sends a request. *)
LEMMA SendingStep ==
  ASSUME ServerTypes, PeerInv, NEW c \in Conns,
         SendCredentials(c) \/ LoseHandshake(c) \/ SendRequest(c)
  PROVE  PeerInv'
  <1>1. UNCHANGED <<authed, attempts, rpc, send, token, inbox>>
    BY DEF SendCredentials, LoseHandshake, SendRequest, vars, authVars, traffic
  <1>2. outbox[c] \in Seq({"auth", "request"})
    BY DEF PeerInv, PeerTypes
  <1>3. /\ kpc' \in [Conns -> {"greeting", "sending", "waiting", "established", "noToken",
                               "rejected", "unexpected", "lost"}]
        /\ \A d \in Conns \ {c} : kpc'[d] = kpc[d]
        /\ kpc'[c] = "established" <=> kpc[c] = "established"
        /\ kpc'[c] = "rejected" => kpc[c] = "rejected"
    BY DEF SendCredentials, LoseHandshake, SendRequest, Step, PeerInv, PeerTypes
  <1> DEFINE Sent == {"auth", "request"}
  <1>4. /\ outbox' \in [Conns -> Seq(Sent)]
        /\ \A d \in Conns \ {c} : outbox'[d] = outbox[d]
        /\ \/ outbox'[c] = outbox[c]
           \/ outbox'[c] = Append(outbox[c], "auth")
           \/ kpc[c] = "established"
    <2>1. outbox \in [Conns -> Seq(Sent)] /\ "auth" \in Sent /\ "request" \in Sent
      BY DEF PeerInv, PeerTypes
    <2> HIDE DEF Sent
    <2>2. CASE outbox' = outbox
      BY <2>1, <2>2
    <2>3. CASE outbox' = [outbox EXCEPT ![c] = Append(@, "auth")]
      <3>1. Append(outbox[c], "auth") \in Seq(Sent)
        BY <2>1
      <3> QED
        BY <2>1, <2>3, <3>1
    <2>4. CASE kpc[c] = "established" /\ outbox' = [outbox EXCEPT ![c] = Append(@, "request")]
      <3>1. Append(outbox[c], "request") \in Seq(Sent)
        BY <2>1
      <3> QED
        BY <2>1, <2>4, <3>1
    <2> QED
      BY <2>2, <2>3, <2>4 DEF SendCredentials, LoseHandshake, SendRequest
  <1>5. Within(outbox[c], {"auth"}) => Within(Append(outbox[c], "auth"), {"auth"})
    <2>1. "auth" \in Sent /\ "auth" \in {"auth"} /\ outbox[c] \in Seq(Sent)
      BY <1>2
    <2> HIDE DEF Sent
    <2> QED
      BY <2>1, WithinAppend
  <1>6. kpc[c] # "established" => Within(outbox'[c], {"auth"})
    BY <1>4, <1>5 DEF PeerInv, RefusalOf
  <1>7. PeerTypes'
    BY <1>1, <1>3, <1>4 DEF PeerInv, PeerTypes
  <1>8. AcceptanceOf(c)'
    BY <1>1, <1>3 DEF PeerInv, AcceptanceOf
  <1>9. RefusalOf(c)'
    BY <1>1, <1>3, <1>6 DEF PeerInv, RefusalOf, Refused
  <1> QED
    BY <1>1, <1>3, <1>4, <1>7, <1>8, <1>9, OnePeerStep

(* The agent reads the credentials or a request.                           *)
LEMMA AgentReadsStep ==
  ASSUME ServerTypes, PeerInv, NEW c \in Conns, AgentReads(c)
  PROVE  PeerInv'
  <1> DEFINE m == Head(outbox[c])
  <1>1. /\ outbox[c] \in Seq({"auth", "request"}) /\ outbox[c] # <<>>
        /\ outbox' = [outbox EXCEPT ![c] = Tail(@)]
        /\ UNCHANGED <<token, kpc, inbox>>
    BY DEF AgentReads, PeerInv, PeerTypes
  <1>2. /\ outbox'[c] = Tail(outbox[c]) /\ \A d \in Conns \ {c} : outbox'[d] = outbox[d]
        /\ outbox' \in [Conns -> Seq({"auth", "request"})]
    BY <1>1 DEF PeerInv, PeerTypes
  <1>3. Within(outbox[c], {"auth"}) => Within(outbox'[c], {"auth"}) /\ m = "auth"
    BY <1>1, <1>2, WithinTail
  <1>4. PeerTypes'
    BY <1>1, <1>2 DEF PeerInv, PeerTypes
  <1>5. rpc[c] = "reading" /\ send' = send
    BY DEF AgentReads, ReadGoodAuth, ReadBadAuth, ReadRequest, ReadFrame, Step
  <1>6. rpc \in [Conns -> {"off", "release", "close", "done"} \cup LiveSteps]
    BY DEF ServerTypes, SlotInv, SlotTypes
  <1>7. authed \in [Conns -> BOOLEAN] /\ attempts \in [Conns -> Nat]
    BY DEF ServerTypes, OtherTypes
  <1>8. CASE m = "auth" /\ token = "right" /\ ReadGoodAuth(c)
    <2>1. /\ rpc'[c] = "authOk" /\ authed'[c] /\ attempts' = attempts
          /\ \A d \in Conns \ {c} : rpc'[d] = rpc[d] /\ authed'[d] = authed[d]
      BY <1>6, <1>7, <1>8 DEF ReadGoodAuth, ReadFrame, Step
    <2>2. AcceptanceOf(c)'
      BY <1>1, <1>8, <2>1 DEF AcceptanceOf
    <2>3. RefusalOf(c)'
      BY <1>1, <1>3, <1>5, <2>1 DEF PeerInv, RefusalOf, Refused
    <2> QED
      BY <1>1, <1>2, <1>4, <1>5, <2>1, <2>2, <2>3, OnePeerStep
  <1>9. CASE m = "auth" /\ token = "wrong" /\ ReadBadAuth(c)
    <2>1. /\ rpc'[c] = "authReject" /\ authed' = authed /\ attempts'[c] > 0
          /\ \A d \in Conns \ {c} : rpc'[d] = rpc[d] /\ attempts'[d] = attempts[d]
      BY <1>6, <1>7, <1>9 DEF ReadBadAuth, ReadFrame, Step
    <2>2. AcceptanceOf(c)'
      BY <1>1, <1>5, <2>1 DEF PeerInv, AcceptanceOf
    <2>3. RefusalOf(c)'
      BY <1>1, <1>3, <1>9, <2>1 DEF PeerInv, RefusalOf, Refused
    <2> QED
      BY <1>1, <1>2, <1>4, <1>5, <2>1, <2>2, <2>3, OnePeerStep
  <1>10. CASE m = "request" /\ ReadRequest(c)
    <2>1. kpc[c] = "established"
      BY <1>3, <1>10 DEF PeerInv, RefusalOf
    <2>2. /\ rpc'[c] # "off" /\ authed' = authed /\ attempts' = attempts
          /\ \A d \in Conns \ {c} : rpc'[d] = rpc[d]
      BY <1>6, <1>10 DEF ReadRequest, ReadFrame, Step, authVars
    <2>3. AcceptanceOf(c)'
      BY <1>1, <1>5, <2>2 DEF PeerInv, AcceptanceOf
    <2>4. RefusalOf(c)'
      BY <1>1, <2>1 DEF RefusalOf
    <2> QED
      BY <1>1, <1>2, <1>4, <1>5, <2>2, <2>3, <2>4, OnePeerStep
  <1> QED
    BY <1>8, <1>9, <1>10 DEF AgentReads

(* The agent writes the oldest message of its queue to the socket.         *)
LEMMA AgentWritesStep ==
  ASSUME ServerTypes, PeerInv, NEW c \in Conns, AgentWrites(c)
  PROVE  PeerInv'
  <1> DEFINE m == Head(send[c])
  <1>1. /\ wpc[c] = "running" /\ send[c] # <<>> /\ send' = [send EXCEPT ![c] = Tail(@)]
        /\ inbox' = [inbox EXCEPT ![c] = Append(@, m)]
        /\ UNCHANGED <<token, kpc, outbox, rpc, authed, attempts>>
    BY DEF AgentWrites, WriteMessage, Dequeue, authVars
  <1>2. send \in [Conns -> Seq(Kinds)] /\ inbox \in [Conns -> Seq(Kinds)]
    BY DEF ServerTypes, AuthInv, QueueTypes, PeerInv, PeerTypes
  <1>3. send[c] \in Seq(Kinds) /\ inbox[c] \in Seq(Kinds) /\ m \in Kinds
    BY <1>1, <1>2
  <1>4. /\ send'[c] = Tail(send[c]) /\ inbox'[c] = Append(inbox[c], m)
        /\ \A d \in Conns \ {c} : send'[d] = send[d] /\ inbox'[d] = inbox[d]
    BY <1>1, <1>2
  <1>5. inbox' \in [Conns -> Seq(Kinds)]
    <2>1. Append(inbox[c], m) \in Seq(Kinds)
      BY <1>3
    <2> QED
      BY <1>1, <1>2, <2>1
  <1>6. PeerTypes'
    BY <1>1, <1>5 DEF PeerInv, PeerTypes
  <1>7. \A kinds : Within(send[c], kinds) => Within(send'[c], kinds) /\ m \in kinds
    BY <1>1, <1>3, <1>4, WithinTail
  <1>8. \A kinds : Within(inbox[c], kinds) /\ m \in kinds => Within(inbox'[c], kinds)
    BY <1>3, <1>4, WithinAppend
  <1>9. ~authed[c] => Within(send[c], Greeting)
    <2>1. rpc[c] # "off"
      BY <1>1 DEF ServerTypes, AnswerInv, BooksOf
    <2>2. ~authed[c] => TokenSet
      BY <2>1 DEF PeerInv, AcceptanceOf
    <2> QED
      BY <2>2 DEF ServerTypes, AuthInv, OnlyGreeting, Within
  <1> HIDE DEF m
  <1>10. AcceptanceOf(c)'
    BY <1>1, <1>7, <1>8, <1>9 DEF PeerInv, AcceptanceOf
  <1>11. RefusalOf(c)'
    BY <1>1, <1>7, <1>8 DEF PeerInv, RefusalOf, Refused
  <1> QED
    BY <1>1, <1>4, <1>6, <1>10, <1>11, OnePeerStep

(* A step of the agent on its own that queues a message or drops one, and  *)
(* moves its reader; the peer's side stays as it is.                       *)
LEMMA AgentAloneStep ==
  ASSUME ServerTypes, PeerInv, NEW c \in Conns, UNCHANGED peerVars,
         attempts' = attempts,
         authed'[c] = authed[c] \/ (rpc[c] = "off" /\ authed'[c] = ~TokenSet),
         \A d \in Conns \ {c} :
             send'[d] = send[d] /\ rpc'[d] = rpc[d] /\ authed'[d] = authed[d],
         rpc'[c] # "off" => rpc[c] # "off" \/ authed'[c] = ~TokenSet,
         rpc'[c] \in {"denied", "working", "authReject"} => rpc'[c] = rpc[c],
         \/ send'[c] = send[c]
         \/ send[c] # <<>> /\ send'[c] = Tail(send[c])
         \/ \E kind \in Kinds :
              /\ send'[c] = Append(send[c], kind)
              /\ kind = "error" => rpc[c] \in {"denied", "working", "authReject"}
  PROVE  PeerInv'
  <1>1. UNCHANGED <<token, kpc, inbox, outbox>>
    BY DEF peerVars
  <1>2. PeerTypes'
    BY <1>1 DEF PeerInv, PeerTypes
  <1>3. send[c] \in Seq(Kinds)
    BY DEF ServerTypes, AuthInv, QueueTypes
  <1>4. authed[c] \in BOOLEAN /\ TokenSet \in BOOLEAN
    BY ServerAssumption DEF ServerTypes, OtherTypes
  <1>5. TokenSet /\ rpc[c] = "off" => ~authed[c]
    BY DEF ServerTypes, AuthInv
  <1>6. /\ authed[c] => authed'[c]
        /\ authed'[c] /\ TokenSet => authed[c]
    BY <1>4, <1>5
  <1>7. ~TokenSet /\ rpc'[c] # "off" => authed'[c]
    BY <1>4, <1>6 DEF PeerInv, AcceptanceOf
  <1>8. AcceptanceOf(c)'
    BY <1>1, <1>6, <1>7 DEF PeerInv, AcceptanceOf
  <1>9. ASSUME kpc[c] # "established", ~Refused(c)
        PROVE  Within(send'[c], Calm)
    <2>1. Within(send[c], Calm) /\ rpc[c] \notin {"denied", "working", "authReject"}
      BY <1>9 DEF PeerInv, RefusalOf
    <2>2. CASE send[c] # <<>> /\ send'[c] = Tail(send[c])
      BY <1>3, <2>1, <2>2, WithinTail
    <2>3. ASSUME NEW kind \in Kinds, send'[c] = Append(send[c], kind), kind # "error"
          PROVE  Within(send'[c], Calm)
      <3>1. kind \in Calm
        BY <2>3 DEF Calm
      <3> QED
        BY <1>3, <2>1, <2>3, <3>1, WithinAppend
    <2> QED
      BY <2>1, <2>2, <2>3
  <1>10. RefusalOf(c)'
    BY <1>1, <1>9 DEF PeerInv, RefusalOf, Refused
  <1> QED
    BY <1>1, <1>2, <1>8, <1>10, OnePeerStep

(* sendMsg, seen from the queue.                                           *)
LEMMA SendMsgQueues ==
  ASSUME ServerTypes, NEW c \in Conns, NEW kind \in Kinds, SendMsg(c, kind)
  PROVE  /\ \A d \in Conns \ {c} : send'[d] = send[d]
         /\ send'[c] = send[c] \/ send'[c] = Append(send[c], kind)
  BY DEF SendMsg, ServerTypes, AuthInv, QueueTypes

LEMMA AgentStepsStep ==
  ASSUME ServerTypes, PeerInv, NEW c \in Conns, AgentSteps(c)
  PROVE  PeerInv'
  <1>1. UNCHANGED peerVars
    BY DEF AgentSteps
  <1>2. /\ rpc \in [Conns -> {"off", "release", "close", "done"} \cup LiveSteps]
        /\ authed \in [Conns -> BOOLEAN]
        /\ send \in [Conns -> Seq(Kinds)]
    BY DEF ServerTypes, SlotInv, SlotTypes, OtherTypes, AuthInv, QueueTypes
  <1>3. CASE Serve(c)
    <2> DEFINE kind == IF TokenSet THEN "auth_required" ELSE "agent_info"
    <2>1. /\ hpc[c] = "registered" /\ SendMsg(c, kind) /\ attempts' = attempts
          /\ rpc'[c] = "reading" /\ authed'[c] = ~TokenSet
          /\ \A d \in Conns \ {c} : rpc'[d] = rpc[d] /\ authed'[d] = authed[d]
      BY <1>2, <1>3 DEF Serve, Step
    <2>2. kind \in Kinds /\ kind # "error"
      BY DEF Kinds, Answers
    <2>3. rpc[c] = "off"
      BY <2>1 DEF ServerTypes, SlotInv, Lifecycle
    <2> HIDE DEF kind
    <2>4. /\ \A d \in Conns \ {c} : send'[d] = send[d]
          /\ send'[c] = send[c] \/ send'[c] = Append(send[c], kind)
      BY <2>1, <2>2, SendMsgQueues
    <2> QED
      BY <1>1, <2>1, <2>2, <2>3, <2>4, AgentAloneStep
  <1>4. CASE Deny(c) \/ Respond(c) \/ AuthReject(c) \/ AuthOk(c) \/ AuthInfo(c)
    <2>1. /\ UNCHANGED <<attempts, authed>>
          /\ rpc[c] # "off" /\ rpc'[c] \in {"reading", "authClose", "authInfo"}
          /\ \A d \in Conns \ {c} : rpc'[d] = rpc[d]
      BY <1>2, <1>4 DEF Deny, Respond, AuthReject, AuthOk, AuthInfo, Step, authVars
    <2>2. PICK kind \in Kinds :
            SendMsg(c, kind) /\ (kind = "error" => rpc[c] \in {"denied", "working", "authReject"})
      BY <1>4 DEF Deny, Respond, AuthReject, AuthOk, AuthInfo, Step, Kinds, Answers
    <2>3. /\ \A d \in Conns \ {c} : send'[d] = send[d]
          /\ send'[c] = send[c] \/ send'[c] = Append(send[c], kind)
      BY <2>2, SendMsgQueues
    <2> QED
      BY <1>1, <2>1, <2>2, <2>3, AgentAloneStep
  <1>5. CASE Push(c)
    <2>1. /\ UNCHANGED <<attempts, authed, rpc>>
          /\ send'[c] = Append(send[c], "update")
          /\ \A d \in Conns \ {c} : send'[d] = send[d]
          /\ "update" \in Kinds
      BY <1>2, <1>5 DEF Push, authVars, Kinds
    <2> QED
      BY <1>1, <2>1, AgentAloneStep
  <1>6. CASE WriteFails(c)
    <2>1. /\ UNCHANGED <<attempts, authed, rpc>>
          /\ send[c] # <<>> /\ send'[c] = Tail(send[c])
          /\ \A d \in Conns \ {c} : send'[d] = send[d]
      BY <1>2, <1>6 DEF WriteFails, Dequeue, authVars
    <2> QED
      BY <1>1, <2>1, AgentAloneStep
  <1>7. CASE AuthClose(c) \/ ReadError(c) \/ Leaving(c)
    <2>1. /\ UNCHANGED <<attempts, authed, send>>
          /\ rpc[c] # "off" /\ rpc'[c] \in {"reading", "unregister", "release", "close", "done"}
          /\ \A d \in Conns \ {c} : rpc'[d] = rpc[d]
      BY <1>2, <1>7 DEF AuthClose, ReadError, Leaving, Unregister, ReleaseSlot, CloseClient, Step,
                        authVars, traffic
    <2> QED
      BY <1>1, <2>1, AgentAloneStep
  <1>8. CASE \/ Admit(c) \/ Upgrade(c) \/ UpgradeFails(c) \/ Register(c) \/ RegisterFull(c)
             \/ Reject(c) \/ WriterSeesDone(c) \/ WriterExits(c) \/ Timer(c)
    <2>1. UNCHANGED <<attempts, authed, send, rpc>>
      BY <1>8 DEF Admit, Upgrade, UpgradeFails, Register, RegisterFull, Reject, WriterSeesDone,
                  WriterExits, Timer, TimerFires, TimerSeesDone, TimerCloses, authVars, traffic
    <2> QED
      BY <1>1, <2>1, AgentAloneStep
  <1> QED
    BY <1>3, <1>4, <1>5, <1>6, <1>7, <1>8 DEF AgentSteps, Handler, Handling

----------------------------------------------------------------------------

LEMMA PeerInvariant == HandshakeSpec => []PeerInv
  <1>1. HandshakeInit => PeerInv
    BY DEF HandshakeInit, Init, PeerInv, PeerTypes, AcceptanceOf, RefusalOf, Within
  <1>2. ServerTypes /\ PeerInv /\ [HandshakeNext]_allVars => PeerInv'
    <2> SUFFICES ASSUME ServerTypes, PeerInv, [HandshakeNext]_allVars
                 PROVE  PeerInv'
      OBVIOUS
    <2>1. CASE UNCHANGED allVars
      <3>1. UNCHANGED <<token, kpc, inbox, outbox, authed, attempts, rpc, send>>
        BY <2>1 DEF allVars, vars, authVars, traffic, peerVars
      <3> QED
        BY <3>1 DEF PeerInv, PeerTypes, AcceptanceOf, RefusalOf, Refused
    <2>2. ASSUME NEW c \in Conns, ReadGreeting(c) \/ ReadReply(c) \/ Drain(c)
          PROVE  PeerInv'
      BY <2>2, ReceiveStep DEF ReadGreeting, ReadReply, Drain
    <2> QED
      BY <2>1, <2>2, SendingStep, AgentReadsStep, AgentWritesStep, AgentStepsStep DEF HandshakeNext
  <1>3. Spec => []ServerTypes
    BY SlotInvariant, AuthInvariant, AnswerInvariant, OtherTypesInvariant, PTL DEF ServerTypes
  <1> QED
    BY <1>1, <1>2, <1>3, HandshakeRefinesServer, PTL DEF HandshakeSpec

(* Whatever tokens, timeouts, broken sockets and interleavings, the        *)
(* control center takes a connection for established only when the agent   *)
(* has accepted it, and with a token configured only if it holds that      *)
(* token (client.go:463-495, server.go:209-220, handlers.go:84-95).        *)
THEOREM EstablishedMeansAuthedTheorem == HandshakeSpec => []EstablishedMeansAuthed
  <1>1. PeerInv => EstablishedMeansAuthed
    BY DEF PeerInv, AcceptanceOf, EstablishedMeansAuthed
  <1> QED
    BY <1>1, PeerInvariant, PTL

(* "authentication failed" is reported only when the agent has counted a   *)
(* failed attempt of this connection: no other error can be taken for the  *)
(* reply to the credentials (client.go:480-493, handlers.go:66-82).        *)
THEOREM RejectedMeansWrongTokenTheorem == HandshakeSpec => []RejectedMeansWrongToken
  <1>1. PeerInv => RejectedMeansWrongToken
    BY DEF PeerInv, RefusalOf, Refused, RejectedMeansWrongToken
  <1> QED
    BY <1>1, PeerInvariant, PTL

============================================================================
