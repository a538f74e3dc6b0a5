----------------------------- MODULE Handshake -----------------------------
(***************************************************************************)
(* The greeting exchange between the control center and an agent:          *)
(* handshake() of control-center/backend/client/client.go on one side, the *)
(* server of AgentServer on the other, and the socket between them.        *)
(*                                                                         *)
(* handshake() runs before the control center's read pump exists, so the   *)
(* messages of one connection have one reader.  It is followed here by the *)
(* requests an established connection carries.                             *)
(***************************************************************************)
EXTENDS AgentServer

CONSTANT SocketCap   \* bound of the model: messages in flight on a socket

ASSUME SocketAssumption == SocketCap \in Nat \ {0}

VARIABLES
    token,   \* options.AuthToken: the agent's token, another one, or none
    kpc,     \* handshake() of each connection: its step, or how it ended
    inbox,   \* written by the agent, not yet read by the control center
    outbox   \* written by the control center, not yet read by the agent

peerVars == <<token, kpc, inbox, outbox>>
allVars == <<vars, peerVars>>

HandshakeInit ==
    /\ Init
    /\ token \in {"right", "wrong", "none"}
    /\ kpc = [c \in Conns |-> "greeting"]
    /\ inbox = [c \in Conns |-> <<>>]
    /\ outbox = [c \in Conns |-> <<>>]

----------------------------------------------------------------------------
(* The control center.                                                     *)

(* conn.ReadJSON takes the next message off the socket.                    *)
Receive(c) == inbox[c] # <<>> /\ inbox' = [inbox EXCEPT ![c] = Tail(@)]

(* Mutant: a control center without a token takes the greeting for enough. *)
AfterGreetingMutant(kind) ==
    CASE kind = "agent_info"                             -> "established"
      [] kind = "auth_required" /\ token = "none"        -> "established"
      [] kind = "auth_required" /\ token # "none"        -> "sending"
      [] kind \notin {"agent_info", "auth_required"}     -> "unexpected"

(* The first message: an open agent needs nothing more, a closed one asks  *)
(* for the token.                                                          *)
AfterGreeting(kind) ==
    CASE kind = "agent_info"                             -> "established"
      [] kind = "auth_required" /\ token = "none"        -> "noToken"
      [] kind = "auth_required" /\ token # "none"        -> "sending"
      [] kind \notin {"agent_info", "auth_required"}     -> "unexpected"

ReadGreeting(c) ==
    /\ Receive(c)
    /\ Step(kpc, c, "greeting", AfterGreeting(Head(inbox[c])))
    /\ UNCHANGED <<vars, token, outbox>>

SendCredentials(c) ==
    /\ Step(kpc, c, "sending", "waiting")
    /\ outbox' = [outbox EXCEPT ![c] = Append(@, "auth")]
    /\ UNCHANGED <<vars, token, inbox>>

(* Mutant: whatever is not an acceptance is a refusal.                     *)
AfterReplyMutant(kind) ==
    CASE kind = "auth_ok"    -> "established"
      [] kind = "agent_info" -> "waiting"
      [] kind \notin {"auth_ok", "agent_info"} -> "rejected"

(* The loop over the replies to the credentials.                           *)
AfterReply(kind) ==
    CASE kind = "auth_ok"    -> "established"
      [] kind = "error"      -> "rejected"
      [] kind = "agent_info" -> "waiting"
      [] kind \notin {"auth_ok", "error", "agent_info"} -> "unexpected"

ReadReply(c) ==
    /\ Receive(c)
    /\ Step(kpc, c, "waiting", AfterReply(Head(inbox[c])))
    /\ UNCHANGED <<vars, token, outbox>>

(* A read or a write fails: the socket broke or handshakeTimeout passed.   *)
LoseHandshake(c) ==
    /\ kpc[c] \in {"greeting", "sending", "waiting"}
    /\ kpc' = [kpc EXCEPT ![c] = "lost"]
    /\ UNCHANGED <<vars, token, inbox, outbox>>

(* An established connection: the read pump drains it, requests go out.    *)
Drain(c) ==
    /\ kpc[c] = "established"
    /\ Receive(c)
    /\ UNCHANGED <<vars, token, kpc, outbox>>

SendRequest(c) ==
    /\ kpc[c] = "established"
    /\ Len(outbox[c]) < SocketCap
    /\ outbox' = [outbox EXCEPT ![c] = Append(@, "request")]
    /\ UNCHANGED <<vars, token, kpc, inbox>>

----------------------------------------------------------------------------
(* The agent, reading what was sent and writing what will be read.         *)

AgentReads(c) ==
    /\ outbox[c] # <<>>
    /\ \/ Head(outbox[c]) = "auth" /\ token = "right" /\ ReadGoodAuth(c)
       \/ Head(outbox[c]) = "auth" /\ token = "wrong" /\ ReadBadAuth(c)
       \/ Head(outbox[c]) = "request" /\ ReadRequest(c)
    /\ outbox' = [outbox EXCEPT ![c] = Tail(@)]
    /\ UNCHANGED <<token, kpc, inbox>>

AgentWrites(c) ==
    /\ Len(inbox[c]) < SocketCap
    /\ WriteMessage(c)
    /\ inbox' = [inbox EXCEPT ![c] = Append(@, Head(send[c]))]
    /\ UNCHANGED <<token, kpc, outbox>>

(* Everything the agent does without its peer; the connection can break in *)
(* any state.                                                              *)
AgentSteps(c) ==
    /\ \/ Admit(c) \/ Handler(c) \/ Handling(c) \/ ReadError(c) \/ Leaving(c)
       \/ WriteFails(c) \/ WriterSeesDone(c) \/ WriterExits(c)
       \/ Push(c)
       \/ Timer(c)
    /\ UNCHANGED peerVars

HandshakeNext ==
    \E c \in Conns :
        \/ ReadGreeting(c) \/ SendCredentials(c) \/ ReadReply(c) \/ LoseHandshake(c)
        \/ Drain(c) \/ SendRequest(c)
        \/ AgentReads(c) \/ AgentWrites(c) \/ AgentSteps(c)

HandshakeSpec == HandshakeInit /\ [][HandshakeNext]_allVars

----------------------------------------------------------------------------

(* The control center takes a connection for established only when the     *)
(* agent has accepted it, whichever of the two ways the agent greets:      *)
(* client.go:463-495 against server.go:209-220 and handlers.go:84-95.      *)
EstablishedMeansAuthed ==
    \A c \in Conns : kpc[c] = "established" => authed[c] /\ (TokenSet => token = "right")

(* "authentication failed" is only ever reported for a token the agent     *)
(* refused, never because an error meant for something else was read as    *)
(* the reply.                                                              *)
RejectedMeansWrongToken ==
    \A c \in Conns : kpc[c] = "rejected" => token = "wrong" /\ attempts[c] > 0

(* README.md:124-126 and server_test.go:82-91: the answer to valid         *)
(* credentials is auth_ok.  The handshake of a control center that has the *)
(* right token therefore never meets a message it does not expect.         *)
CredentialsAnsweredByAuthOk ==
    \A c \in Conns : token = "right" => kpc[c] # "unexpected"

============================================================================
