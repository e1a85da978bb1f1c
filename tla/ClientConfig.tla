---------------------------- MODULE ClientConfig ----------------------------
(***************************************************************************)
(* What the websocket client owns (esp_websocket_client.c): the blocks and *)
(* handles esp_websocket_client_init allocates, in its order, with the     *)
(* strings of esp_websocket_client_set_uri and _set_config, the transports *)
(* esp_websocket_client_create_transport adds at each start, the headers   *)
(* appended later, and what a destroy gives back.  Every allocation may    *)
(* fail.  A name stands for its pointer and the blocks allocated for it.   *)
(***************************************************************************)
EXTENDS Integers, Sequences

CONSTANTS
  Given,       \* members of esp_websocket_client_config_t the application sets, the
               \* kind of transport left to the URI
  UriParts,    \* parts the URI has
  MaxStarts,   \* bound: calls of esp_websocket_client_start
  MaxHeaders   \* bound: calls of esp_websocket_client_append_header

Strings == {"scheme", "host", "path", "username", "password", "auth", "uri", "subprotocol",
            "user_agent", "headers"}
Handles == {"client", "event_handle", "if_name", "lock", "config", "rx_buffer", "tx_buffer",
            "status_bits"}
Transports == {"transport_list", "base", "ws"}

ASSUME GivenAssumption == Given \subseteq Strings \cup {"if_name"}
ASSUME BoundsAssumption == MaxStarts \in Nat /\ MaxHeaders \in Nat
ASSUME UriPartsAssumption == UriParts \subseteq {"scheme", "host", "path", "userinfo"}

VARIABLES
  blocks,   \* blocks allocated under a name and not freed
  held,     \* names whose pointer is not NULL
  step,     \* next allocation of esp_websocket_client_init
  phase,    \* init, ready, fail, destroyed, or asserted in vQueueDelete
  starts, headers

cfgVars == <<blocks, held, step, phase, starts, headers>>

Names == Strings \cup Handles \cup Transports \cup {"user_info"}

-----------------------------------------------------------------------------
InConfig(m) == m \in Given
InUri(p) == InConfig("uri") /\ p \in UriParts

\* One allocation: what it is for, whether the code frees the last one first, and
\* what calls for it.
Alloc(name, old, when) == [name |-> name, old |-> old, when |-> when]

Needed(s) ==
  \/ s.when = "always"
  \/ s.when = "config" /\ InConfig(s.name)
  \/ s.when = "uri" /\ InUri(s.name)
  \/ s.when = "userinfo" /\ InUri("userinfo")
  \/ /\ s.when = "credentials"
     /\ InUri("userinfo") \/ (InConfig("username") /\ InConfig("password"))
  \/ s.when = "no_scheme" /\ ~InUri("scheme")

\* esp_websocket_client_set_uri
UriSteps ==
  << Alloc("scheme", "freed", "uri"), Alloc("host", "freed", "uri"),
     Alloc("path", "freed", "uri"), Alloc("user_info", "kept", "userinfo"),
     Alloc("password", "freed", "userinfo"), Alloc("username", "freed", "userinfo") >>

\* esp_websocket_client_set_config: the host alone is not freed first.
ConfigSteps ==
  << Alloc("host", "kept", "config"), Alloc("username", "freed", "config"),
     Alloc("password", "freed", "config"), Alloc("auth", "freed", "credentials"),
     Alloc("uri", "freed", "config"), Alloc("path", "freed", "config"),
     Alloc("subprotocol", "freed", "config"), Alloc("user_agent", "freed", "config"),
     Alloc("headers", "freed", "config") >>

\* esp_websocket_client_init
InitSteps ==
  << Alloc("client", "kept", "always"), Alloc("event_handle", "kept", "always"),
     Alloc("if_name", "kept", "config"), Alloc("lock", "kept", "always"),
     Alloc("config", "kept", "always") >>
  \o UriSteps \o ConfigSteps
  \o << Alloc("scheme", "kept", "no_scheme"), Alloc("rx_buffer", "kept", "always"),
        Alloc("tx_buffer", "kept", "always"), Alloc("status_bits", "kept", "always") >>

ConfigInit ==
  /\ blocks = [n \in Names |-> 0] /\ held = {}
  /\ step = 1 /\ phase = "init" /\ starts = 0 /\ headers = 0

\* free(x->name) and then x->name = a new block.
Take(b, h, s) ==
  /\ blocks' = [b EXCEPT ![s.name] = (IF s.old = "freed" /\ s.name \in h THEN @ - 1 ELSE @) + 1]
  /\ held' = h \cup {s.name}

Allocate ==
  /\ phase = "init" /\ step <= Len(InitSteps)
  /\ LET s == InitSteps[step]
         \* the user information is a local of esp_websocket_client_set_uri
         b == IF s.name = "username" /\ "user_info" \in held
              THEN [blocks EXCEPT !["user_info"] = 0] ELSE blocks
     IN  Take(b, IF s.name = "username" THEN held \ {"user_info"} ELSE held, s)
  /\ step' \in (step + 1)..(Len(InitSteps) + 1)
  /\ step' <= Len(InitSteps) => Needed(InitSteps[step'])
  /\ \A i \in (step + 1)..(step' - 1) : ~Needed(InitSteps[i])
  /\ phase' = IF step = Len(InitSteps) THEN "ready" ELSE phase
  /\ UNCHANGED <<starts, headers>>

\* The name is NULL after the free and the allocation that failed.  Without a
\* client nothing is left; without an event loop only the client is.
AllocationFails ==
  /\ phase = "init"
  /\ LET s == InitSteps[step]
     IN  /\ blocks' = IF s.name = "event_handle" THEN [blocks EXCEPT !["client"] = 0]
                      ELSE IF s.old = "freed" /\ s.name \in held THEN [blocks EXCEPT ![s.name] = @ - 1]
                      ELSE blocks
         /\ held' = IF s.name = "event_handle" THEN {} ELSE held \ {s.name}
         /\ phase' = IF s.name \in {"client", "event_handle"} THEN "destroyed" ELSE "fail"
  /\ UNCHANGED <<step, starts, headers>>

-----------------------------------------------------------------------------
\* The transports of the last session go with their list.
NewTransports == [n \in Transports |-> 1]

\* esp_websocket_client_create_transport
CreateTransport ==
  /\ phase = "ready" /\ starts < MaxStarts
  /\ blocks' = [n \in Names |-> IF n \in Transports THEN NewTransports[n] ELSE blocks[n]]
  /\ held' = held \cup Transports
  /\ starts' = starts + 1
  /\ UNCHANGED <<step, phase, headers>>

\* The client is in a state the next start, or a destroy, leaves: a list without
\* all of its transports.
CreateTransportFails ==
  /\ phase = "ready" /\ starts < MaxStarts
  /\ \E made \in {{}, {"transport_list"}, {"transport_list", "base"}} :
       /\ blocks' = [n \in Names |-> IF n \in made THEN 1 ELSE IF n \in Transports THEN 0
                                     ELSE blocks[n]]
       /\ held' = (held \ Transports) \cup made
  /\ starts' = starts + 1
  /\ UNCHANGED <<step, phase, headers>>

\* Slip: the old headers are not freed.
KeepsOldHeaders == Alloc("headers", "kept", "always")

NewHeaders == Alloc("headers", "freed", "always")

\* esp_websocket_client_append_header
AppendHeader ==
  /\ phase = "ready" /\ headers < MaxHeaders
  /\ Take(blocks, held, NewHeaders)
  /\ headers' = headers + 1
  /\ UNCHANGED <<step, phase, starts>>

\* esp_websocket_client_destroy_config, when there is a config
ConfigStrings == IF "config" \in held THEN Strings \cup {"config"} ELSE {}

Deleted == held \cap (ConfigStrings \cup Transports \cup (Handles \ {"config"}))

\* destroy_and_free_resources: one block for each pointer.  A queue must be there
\* to be deleted.
Destroy ==
  /\ phase \in {"ready", "fail"}
  /\ blocks' = [n \in Names |-> IF n \in Deleted THEN blocks[n] - 1 ELSE blocks[n]]
  /\ held' = {}
  /\ phase' = IF "lock" \in held THEN "destroyed" ELSE "asserted"
  /\ UNCHANGED <<step, starts, headers>>

ConfigNext == Allocate \/ AllocationFails \/ CreateTransport \/ CreateTransportFails
                \/ AppendHeader \/ Destroy

ConfigSpec == ConfigInit /\ [][ConfigNext]_cfgVars

-----------------------------------------------------------------------------
ConfigTypeOK ==
  /\ blocks \in [Names -> Nat] /\ held \subseteq Names
  /\ step \in 1..(Len(InitSteps) + 1) /\ phase \in {"init", "ready", "fail", "destroyed",
                                                        "asserted"}
  /\ starts \in 0..MaxStarts /\ headers \in 0..MaxHeaders

\* What no pointer leads to any more: the host of the URI, when the configuration
\* names one too, and the user information of the URI, when a copy of a part fails.
Lost(n) == \/ n = "host" /\ InConfig("host") /\ InUri("host")
           \/ n = "user_info" /\ InUri("userinfo")

\* "Destroy the WebSocket connection and free all resources": whichever allocation
\* failed, whatever was started and appended, nothing is left but what was lost.
DestroyFreesAll ==
  phase = "destroyed" => \A n \in Names : blocks[n] <= (IF Lost(n) THEN 1 ELSE 0)
=============================================================================
