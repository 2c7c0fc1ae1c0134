------------------------------ MODULE SendToken ------------------------------
(***************************************************************************)
(* The send token a node hands out so that one peer at a time sends it     *)
(* image data (LocalNode::acquireSendToken, used by Channel of eq/client   *)
(* with IATTR_HINT_SENDTOKEN).  The server side runs in the command thread *)
(* of the node that owns the token, a client blocks in waitRequest.        *)
(*                                                                         *)
(* Time is the flag "expired": more than Global::getTimeout() has passed   *)
(* since the last release.  With Timeout = FALSE, getTimeout() is          *)
(* LB_TIMEOUT_INDEFINITE and nothing ever expires.                         *)
(***************************************************************************)
EXTENDS Naturals, Sequences

CONSTANTS
    Clients,      \* threads that acquire the token
    Timeout,      \* getTimeout() is finite
    LastRequest   \* bound: requests a client makes

VARIABLES
    sendToken,       \* Impl::sendToken: the token is available
    sendTokenQueue,  \* Impl::sendTokenQueue: retained acquire commands
    expired,         \* the timeout has passed since lastSendToken
    commands,        \* commands of each client on their way to the server
    replies,         \* replies on their way to each client
    request,         \* number of the last request of each client
    client           \* what each client is doing

vars == <<sendToken, sendTokenQueue, expired, commands, replies, request, client>>

Acquire(c) == [type |-> "acquire", client |-> c, id |-> request'[c]]
Release(c) == [type |-> "release", client |-> c, id |-> request[c]]

Init ==
    /\ sendToken = TRUE
    /\ sendTokenQueue = <<>>
    /\ expired = FALSE
    /\ commands = [c \in Clients |-> <<>>]
    /\ replies = [c \in Clients |-> {}]
    /\ request = [c \in Clients |-> 0]
    /\ client = [c \in Clients |-> "idle"]

TimePasses ==
    /\ Timeout /\ ~expired
    /\ expired' = TRUE
    /\ UNCHANGED <<sendToken, sendTokenQueue, commands, replies, request, client>>

-----------------------------------------------------------------------------
(* acquireSendToken and releaseSendToken.                                  *)

AcquireSendToken(c) ==
    /\ client[c] = "idle"
    /\ request[c] < LastRequest
    /\ request' = [request EXCEPT ![c] = @ + 1]
    /\ client' = [client EXCEPT ![c] = "waiting"]
    /\ commands' = [commands EXCEPT ![c] = Append(@, Acquire(c))]
    /\ UNCHANGED <<sendToken, sendTokenQueue, expired, replies>>

(* The reply serves the request if it is still registered.                 *)
CmdAcquireSendTokenReply(c) ==
    \E id \in replies[c] :
        /\ replies' = [replies EXCEPT ![c] = @ \ {id}]
        /\ client' = [client EXCEPT ![c] =
                          IF @ = "waiting" /\ id = request[c] THEN "holding" ELSE @]
        /\ UNCHANGED <<sendToken, sendTokenQueue, expired, commands, request>>

(* waitRequest times out; the data is then sent without a token.           *)
AcquireTimeout(c) ==
    /\ Timeout
    /\ client[c] = "waiting"
    /\ client' = [client EXCEPT ![c] = "idle"]
    /\ UNCHANGED <<sendToken, sendTokenQueue, expired, commands, replies, request>>

ReleaseSendToken(c) ==
    /\ client[c] = "holding"
    /\ client' = [client EXCEPT ![c] = "idle"]
    /\ commands' = [commands EXCEPT ![c] = Append(@, Release(c))]
    /\ UNCHANGED <<sendToken, sendTokenQueue, expired, replies, request>>

-----------------------------------------------------------------------------
(* The command thread.                                                     *)

(* As written, the condition of the code takes an available token for a    *)
(* taken one: "!sendToken == 0" is "sendToken".                            *)
CmdAcquireSendToken(command) ==
    /\ command.type = "acquire"
    /\ IF sendToken /\ ~expired
       THEN /\ sendTokenQueue' = Append(sendTokenQueue, command)
            /\ UNCHANGED <<sendToken, replies>>
       ELSE /\ sendTokenQueue' = IF sendToken THEN <<>> ELSE sendTokenQueue
            /\ sendToken' = FALSE
            /\ replies' = [replies EXCEPT ![command.client] = @ \cup {command.id}]
    /\ UNCHANGED expired

CmdReleaseSendToken(command) ==
    /\ command.type = "release"
    /\ expired' = FALSE
    /\ IF sendToken \/ sendTokenQueue = <<>>
       THEN /\ sendToken' = TRUE
            /\ UNCHANGED <<sendTokenQueue, replies>>
       ELSE LET next == Head(sendTokenQueue) IN
            /\ sendTokenQueue' = Tail(sendTokenQueue)
            /\ replies' = [replies EXCEPT ![next.client] = @ \cup {next.id}]
            /\ UNCHANGED sendToken

Command(c) ==
    /\ commands[c] # <<>>
    /\ commands' = [commands EXCEPT ![c] = Tail(@)]
    /\ LET command == Head(commands[c])
       IN  CmdAcquireSendToken(command) \/ CmdReleaseSendToken(command)
    /\ UNCHANGED <<request, client>>

-----------------------------------------------------------------------------
Next ==
    \/ TimePasses
    \/ \E c \in Clients :
          \/ AcquireSendToken(c)
          \/ CmdAcquireSendTokenReply(c)
          \/ AcquireTimeout(c)
          \/ ReleaseSendToken(c)
          \/ Command(c)

Spec == Init /\ [][Next]_vars

\* acquireSendToken acquires "a singular send token": while the holder of the
\* token uses it nobody else is given one.
SingularToken ==
    \A c, d \in Clients : client[c] = "holding" /\ client[d] = "holding" => c = d
==============================================================================
