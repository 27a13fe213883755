------------------------------- MODULE LocalMcp -------------------------------
(***************************************************************************)
(* The portal's Local MCP hub, one computer of one account, and the        *)
(* connector that runs there (clients/local-mcp).  The computer is paired  *)
(* with a code an admin hands out, connects with what it was given, and    *)
(* answers calls one after another, each after its user consented.         *)
(*                                                                         *)
(* A connection has two ends.  The portal's ends with its handler; the     *)
(* connector's may be gone long before the portal notices, and then it     *)
(* connects again.  Handlers of several connections may be at work.        *)
(*                                                                         *)
(* Definitions named Bug_... are mutated forms of the definition they come *)
(* before; no action uses them.                                            *)
(***************************************************************************)
EXTENDS Naturals, Sequences, FiniteSets

CONSTANTS
  Conns,        \* the connections there may be at a time
  Calls,        \* the calls of users
  Schemas,      \* what list_tools may offer
  None,         \* no connection; no schema
  MaxDrops      \* how often the connector's end may be lost

ASSUME DropsAssumption == MaxDrops \in Nat
ASSUME NoneAssumption == None \notin Conns \cup Schemas
ASSUME SchemasAssumption == Schemas # {}

VARIABLES
  allowed,      \* local_mcp_authorized of the account
  code,         \* the pairing code: none, valid, or consumed or expired
  device,       \* local_mcp_devices: no row, paired, or revoked
  pinned,       \* its schema_hash
  stored,       \* the connector has its credentials (DeviceStore)
  tools,        \* the schema its tools have
  handler,      \* where local_mcp_connect is, for each connection
  held,         \* the end the connector holds, of each connection
  closed,       \* the connections whose websocket was closed by the portal
  offered,      \* the schema_hash a connection sent
  registered,   \* LOCAL_MCP_CONNECTIONS of the computer
  orphans,      \* connections that were overtaken: see Registers
  asked,        \* the calls on their way to the connector, or waiting there
  replies,      \* the replies on their way to the portal
  pending,      \* active["pending"] of each connection
  call,         \* each call, and its future
  drops         \* how often the connector's end was lost

rows   == <<allowed, code, device, pinned>>
client == <<stored, tools>>
lines  == <<handler, held, closed, offered, registered, orphans>>
calls  == <<asked, replies, pending, call>>
vars   == <<rows, client, lines, calls, drops>>

Open == {"hello", "challenged", "proved", "replacing", "live", "denied"}

TypeOK ==
  /\ allowed \in BOOLEAN /\ stored \in BOOLEAN /\ tools \in Schemas
  /\ code \in {"none", "valid", "spent"} /\ device \in {"none", "paired", "revoked"}
  /\ pinned \in Schemas \cup {None}
  /\ handler \in [Conns -> Open \cup {"none"}]
  /\ held \subseteq Conns /\ closed \subseteq Conns /\ orphans \subseteq Conns
  /\ offered \in [Conns -> Schemas \cup {None}]
  /\ registered \in Conns \cup {None}
  /\ \A s \in Conns : /\ asked[s] \in Seq(Calls) /\ replies[s] \in Seq(Calls)
                      /\ pending[s] \subseteq Calls /\ Cardinality(pending[s]) <= 1
  /\ call \in [Calls -> {"idle", "waiting", "answered", "broken", "ok", "unavailable", "failed", "refused"}]
  /\ drops \in 0 .. MaxDrops

Init ==
  /\ allowed = TRUE /\ code = "none" /\ device = "none" /\ pinned = None
  /\ stored = FALSE /\ tools = (CHOOSE t \in Schemas : TRUE)
  /\ handler = [s \in Conns |-> "none"]
  /\ held = {} /\ closed = {} /\ registered = None /\ orphans = {}
  /\ offered = [s \in Conns |-> None]
  /\ asked = [s \in Conns |-> <<>>] /\ replies = [s \in Conns |-> <<>>]
  /\ pending = [s \in Conns |-> {}]
  /\ call = [c \in Calls |-> "idle"]
  /\ drops = 0

(* local_mcp_authorized, and a row that is not revoked.                    *)
MayUse == allowed /\ device = "paired"

At(s, place)   == handler[s] = place
Goes(s, place) == handler' = [handler EXCEPT ![s] = place]

(* What is closed is what was registered, if anything was.                 *)
Disconnects == closed' = closed \cup ({registered} \ {None})

-----------------------------------------------------------------------------
(* The admin and the account.                                              *)

(* A code for an account that may use Local MCP; an older one expires.     *)
IssuesCode ==
  /\ allowed /\ code = "none"
  /\ code' = "valid"
  /\ UNCHANGED <<allowed, device, pinned, client, lines, calls, drops>>

(* Unused codes expire after five minutes.                                 *)
CodeExpires ==
  /\ code = "valid"
  /\ code' = "spent"
  /\ UNCHANGED <<allowed, device, pinned, client, lines, calls, drops>>

RevokesDevice ==
  /\ device = "paired"
  /\ device' = "revoked"
  /\ Disconnects
  /\ UNCHANGED <<allowed, code, pinned, client, handler, held, offered, registered, orphans, calls, drops>>

(* The account is changed, blocked, or has its password reset: its code    *)
(* and its device are revoked (revoke_local_mcp_for_user).                 *)
RevokesAccount ==
  /\ allowed' \in BOOLEAN
  /\ code' = (IF code = "valid" THEN "spent" ELSE code)
  /\ device' = (IF device = "paired" THEN "revoked" ELSE device)
  /\ Disconnects
  /\ UNCHANGED <<pinned, client, handler, held, offered, registered, orphans, calls, drops>>

(* The feature is switched off, which revokes nothing, and on again.       *)
SwitchesFeature ==
  /\ allowed' = ~allowed
  /\ IF allowed THEN Disconnects ELSE UNCHANGED closed
  /\ UNCHANGED <<code, device, pinned, client, handler, held, offered, registered, orphans, calls, drops>>

-----------------------------------------------------------------------------
(* The connector.                                                          *)

(* run_forever: it connects when it holds no connection; s is a fresh one. *)
Connects(s) ==
  /\ At(s, "none") /\ pending[s] = {} /\ held = {} /\ (stored \/ code = "valid")
  /\ Goes(s, "hello") /\ held' = {s}
  /\ UNCHANGED <<rows, client, closed, offered, registered, orphans, calls, drops>>

(* Its end is lost, by a network or a restart, or it saw the portal close. *)
LosesEnd(s) ==
  /\ s \in held
  /\ IF s \in closed THEN UNCHANGED drops ELSE drops < MaxDrops /\ drops' = drops + 1
  /\ held' = held \ {s}
  /\ asked' = [asked EXCEPT ![s] = <<>>]
  /\ UNCHANGED <<rows, client, handler, closed, offered, registered, orphans, replies, pending, call>>

(* _handle_call: one call at a time; the user may take any time to consent.*)
Replies(s) ==
  /\ s \in held /\ asked[s] # <<>>
  /\ asked' = [asked EXCEPT ![s] = Tail(@)]
  /\ replies' = [replies EXCEPT ![s] = Append(@, Head(asked[s]))]
  /\ UNCHANGED <<rows, client, lines, pending, call, drops>>

(* Another version of the connector is installed.                          *)
ChangesTools ==
  /\ held = {} /\ pinned # None /\ tools = pinned
  /\ tools' \in Schemas \ {tools}
  /\ UNCHANGED <<rows, stored, lines, calls, drops>>

-----------------------------------------------------------------------------
(* local_mcp_connect.                                                      *)

(* A refusal: connection.denied is sent, then the websocket is closed.     *)
Denies(s) == Goes(s, "denied") /\ closed' = closed \cup {s}

(* What the connector keeps of an answer it gets.                          *)
Keeps(s) == stored' \in {FALSE, (s \in held)}

(* mode pair: in one transaction the code is consumed and the device is    *)
(* written; the answer may be lost, and the device with it.                *)
Pairs(s) ==
  /\ At(s, "hello") /\ ~stored
  /\ Denies(s)
  /\ IF code = "valid" /\ allowed
       THEN code' = "spent" /\ device' = "paired" /\ Keeps(s)
       ELSE UNCHANGED <<code, device, stored>>
  /\ UNCHANGED <<allowed, pinned, tools, held, offered, registered, orphans, calls, drops>>

(* mode auth: the device and its account are looked up, once.              *)
Authenticates(s) ==
  /\ At(s, "hello") /\ stored
  /\ IF MayUse THEN Goes(s, "challenged") /\ UNCHANGED closed ELSE Denies(s)
  /\ UNCHANGED <<rows, client, held, offered, registered, orphans, calls, drops>>

(* The challenge comes back signed, with the device's token; the device is *)
(* that of the row read before, revoked since or not.                      *)
Proves(s) ==
  /\ At(s, "challenged") /\ s \in held
  /\ Goes(s, "proved")
  /\ UNCHANGED <<rows, client, held, closed, offered, registered, orphans, calls, drops>>

(* The schema of the first connection is the only one ever accepted.       *)
SchemaFits(h) == pinned \in {None, h}

(* The manifest: every tool allowed and read-only, and its hash.           *)
Offers(s)   == offered' = [offered EXCEPT ![s] = tools]

Enters(s)   == registered = None /\ Goes(s, "live") /\ registered' = s /\ UNCHANGED closed
Replaces(s) == registered \notin closed \cup {None} /\ Goes(s, "replacing") /\ Disconnects /\ UNCHANGED registered
Collides(s) == registered \in closed /\ Denies(s) /\ UNCHANGED registered

(* The manifest came, and the device is looked up again; another connection*)
(* of the computer is closed first, which takes a while and fails if it is *)
(* being closed already.                                                   *)
Accepts(s) ==
  /\ At(s, "proved") /\ s \in held
  /\ Offers(s)
  /\ IF device = "paired" /\ SchemaFits(tools)
       THEN pinned' = tools /\ (Enters(s) \/ Replaces(s) \/ Collides(s))
       ELSE Denies(s) /\ UNCHANGED <<pinned, registered>>
  /\ UNCHANGED <<allowed, code, device, client, held, orphans, calls, drops>>

(* The old one is closed, and this one is registered, whatever happened    *)
(* meanwhile: one that was registered in between is overtaken, and nobody  *)
(* closes it.                                                              *)
Registers(s) ==
  /\ At(s, "replacing")
  /\ Goes(s, "live")
  /\ registered' = s
  /\ orphans' = orphans \cup ({registered} \ ({None} \cup closed))
  /\ UNCHANGED <<rows, client, held, closed, offered, calls, drops>>

(* A reply has to be that of a call that still waits for it.               *)
Receives(s) ==
  /\ At(s, "live") /\ replies[s] # <<>>
  /\ LET c == Head(replies[s])
     IN IF c \in pending[s] /\ call[c] = "waiting"
          THEN call' = [call EXCEPT ![c] = "answered"] /\ UNCHANGED <<handler, closed>>
          ELSE Denies(s) /\ UNCHANGED call
  /\ replies' = [replies EXCEPT ![s] = Tail(@)]
  /\ UNCHANGED <<rows, client, held, offered, registered, orphans, asked, pending, drops>>

Bug_UnregistersAny(s) == None
Unregistered(s) == IF registered = s THEN None ELSE registered

Bug_CallsLeftWaiting(s) == call

(* "connector offline": whoever still waits is told.                       *)
Broken(s) == [c \in Calls |-> IF c \in pending[s] /\ call[c] = "waiting" THEN "broken" ELSE call[c]]

(* The websocket is found closed, from either end, and the handler ends;   *)
(* the connection can be used for another.                                 *)
HandlerEnds(s) ==
  /\ ~At(s, "none") /\ (s \in closed \/ s \notin held)
  /\ ~At(s, "replacing")
  /\ Goes(s, "none")
  /\ held' = held \ {s} /\ closed' = closed \ {s} /\ orphans' = orphans \ {s}
  /\ offered' = [offered EXCEPT ![s] = None]
  /\ registered' = Unregistered(s)
  /\ call' = Broken(s)
  /\ asked' = [asked EXCEPT ![s] = <<>>] /\ replies' = [replies EXCEPT ![s] = <<>>]
  /\ UNCHANGED <<rows, client, pending, drops>>

-----------------------------------------------------------------------------
(* local_mcp_call.                                                         *)

Bug_NotAsked(s) == TRUE
NotBusy(s) == pending[s] = {}

(* Device and account are looked up once more for every call; if they may  *)
(* not, the connection is closed.                                          *)
Refuses(c) ==
  /\ call[c] = "idle"
  /\ call' = [call EXCEPT ![c] = "refused"]
  /\ IF ~MayUse
       THEN Disconnects
       ELSE (\A s \in {registered} \ {None} : ~NotBusy(s)) /\ UNCHANGED closed
  /\ UNCHANGED <<rows, client, handler, held, offered, registered, orphans, asked, replies, pending, drops>>

(* One call at a time is sent.  A websocket that was closed raises what    *)
(* nobody catches but the finally: the answer is 500, not 504.             *)
Sends(c) ==
  /\ call[c] = "idle" /\ MayUse
  /\ \E s \in {registered} \ {None} :
       /\ NotBusy(s)
       /\ IF s \in closed
            THEN call' = [call EXCEPT ![c] = "failed"] /\ UNCHANGED <<pending, asked>>
            ELSE /\ call' = [call EXCEPT ![c] = "waiting"]
                 /\ pending' = [pending EXCEPT ![s] = @ \cup {c}]
                 /\ asked' = IF s \in held THEN [asked EXCEPT ![s] = Append(@, c)] ELSE asked
  /\ UNCHANGED <<rows, client, lines, replies, drops>>

Forgets(c) == pending' = [s \in Conns |-> pending[s] \ {c}]

(* The future is done, or half a minute is over.                           *)
Returns(c) ==
  /\ call[c] \in {"answered", "broken", "waiting"}
  /\ call' = [call EXCEPT ![c] = IF @ = "answered" THEN "ok" ELSE "unavailable"]
  /\ Forgets(c)
  /\ UNCHANGED <<rows, client, lines, asked, replies, drops>>

-----------------------------------------------------------------------------
Handles(s) ==
  Pairs(s) \/ Authenticates(s) \/ Proves(s) \/ Accepts(s) \/ Registers(s) \/ Receives(s) \/ HandlerEnds(s)

Next ==
  \/ IssuesCode \/ CodeExpires \/ RevokesDevice \/ RevokesAccount \/ SwitchesFeature \/ ChangesTools
  \/ \E s \in Conns : Connects(s) \/ LosesEnd(s) \/ Replies(s) \/ Handles(s)
  \/ \E c \in Calls : Refuses(c) \/ Sends(c) \/ Returns(c)

Spec == Init /\ [][Next]_vars

(* Handlers run on, a connector that lost its connection makes another,    *)
(* and a call has a timeout; nobody has to consent.                        *)
Fairness ==
  /\ WF_vars(\E s \in Conns : Connects(s))
  /\ \A s \in Conns : WF_vars(Handles(s)) /\ WF_vars(LosesEnd(s) /\ s \in closed)
  /\ \A c \in Calls : WF_vars(Returns(c))

FairSpec == Spec /\ Fairness

-----------------------------------------------------------------------------
(* A connection both ends hold can be called: it is the one registered,    *)
(* or is being closed.  Only one that was overtaken while the portal       *)
(* closed its predecessor is neither.                                      *)
LiveIsRegistered ==
  \A s \in held : At(s, "live") => registered = s \/ s \in closed \cup orphans

(* A call waits only on a connection whose handler will tell it: the end   *)
(* of the connection breaks every call on it, none waits for a timeout.    *)
WaitingHasHandler ==
  \A c \in Calls : call[c] = "waiting" => \E s \in Conns : c \in pending[s] /\ ~At(s, "none")

(* Whatever is called has the tools the computer had when it first         *)
(* connected, though another version was installed since.                  *)
CallsMeetThePin ==
  \A s \in Conns : At(s, "live") => offered[s] = pinned

(* Connections, calls and the two ends agree on what is there, though      *)
(* handlers, replacements and calls come and go in any order.              *)
HubConsistent == LiveIsRegistered /\ WaitingHasHandler /\ CallsMeetThePin

(* A computer whose device and account stay as they have to be, and whose  *)
(* tools are those it first came with, is online in the end, whatever      *)
(* connections were lost before, unless it was overtaken.                  *)
ComesOnline ==
  <>[](allowed /\ device = "paired" /\ stored /\ pinned \in {None, tools}) =>
    []<>(\E s \in held : registered = s \/ s \in orphans)

(* "Revocare questo computer? La connessione verra' chiusa subito."        *)
(* (admin.html:120): a revoked computer has no connection that is live and *)
(* not being closed.                                                       *)
RevokedIsClosed == device = "revoked" => \A s \in held : At(s, "live") => s \in closed
=============================================================================
