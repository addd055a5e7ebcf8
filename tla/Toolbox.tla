------------------------------ MODULE Toolbox -------------------------------
(***************************************************************************)
(* The tools of a run: the built-in ones, those the configured MCP servers *)
(* offer, the names the model calls them by, the scope of an agent node    *)
(* and the policy consulted before a call (boitata-core runtime.rs,        *)
(* mcp.rs, config.rs, tools/mod.rs and tools/policy.rs).                   *)
(*                                                                         *)
(* A name is a sequence of characters, one for each class the code tells   *)
(* apart: "a", "e", "l" and "r" are letters, "_" is allowed, "." is not.   *)
(* "l" and "r" stand for list_resources and read_resource, "e" for         *)
(* execute_command, "a_a" for another built-in tool.  Tools do not carry   *)
(* their descriptions and schemas; who serves a call stands for them.      *)
(***************************************************************************)
EXTENDS Integers, Sequences, FiniteSets, SequencesExt, Functions, TLC

CONSTANTS
  MaxToolName,   \* MAX_TOOL_NAME_LEN
  ServerNames,   \* model bound: names of servers in the configuration
  RemoteNames,   \* model bound: names servers give their tools
  MaxServers,    \* model bound: length of mcp_servers
  MaxTools       \* model bound: tools a server lists

Allowed == {"a", "e", "l", "r", "_"}
NameChars == Allowed \cup {"."}

BuiltIn == <<"built in">>   \* no character, hence no server's name

ASSUME ToolboxAssumption ==
  /\ MaxToolName \in Nat /\ MaxToolName >= 3   \* the built-in names fit
  /\ ServerNames \subseteq Seq(NameChars) /\ RemoteNames \subseteq Seq(NameChars)
  /\ MaxServers \in Nat /\ MaxTools \in Nat

Tool(name, server, remote, readOnly) ==
  [name |-> name, server |-> server, remote |-> remote, readOnly |-> readOnly]

(***************************************************************************)
(* Servers.                                                                *)
(***************************************************************************)


\* What is configured, whether the server answers in time, and what it offers.
Server == [name      : ServerNames,
           transport : SUBSET {"url", "command"},
           answers   : BOOLEAN,
           tools     : SeqOf(RemoteNames, MaxTools),
           resources : BOOLEAN]

\* McpServerConfig::transport, the handshake and the listing of the tools: an
\* error or a timeout of any of them skips the server.
Connects(server) == Cardinality(server.transport) = 1 /\ server.answers

\* Tools are annotated read-only by some servers; no annotation is no.
ReadOnlyHint(remote) == remote = <<"l">>

SanitizeToolName(name) ==
  SubSeq([k \in 1..Len(name) |-> IF name[k] \in Allowed THEN name[k] ELSE "_"],
         1, IF Len(name) < MaxToolName THEN Len(name) ELSE MaxToolName)

Exposed(server, suffix) == SanitizeToolName(server.name \o <<"_">> \o suffix)

\* Names are unique within a server: a tool whose name was seen is left out.
Unseen(tools, tool) ==
  IF \E k \in DOMAIN tools : tools[k].name = tool.name THEN tools
  ELSE Append(tools, tool)

RemoteTools(server) ==
  [k \in 1..Len(server.tools) |->
     Tool(Exposed(server, server.tools[k]), server.name, server.tools[k],
          ReadOnlyHint(server.tools[k]))]

ResourceTools(server) ==
  IF ~server.resources THEN <<>>
  ELSE <<Tool(Exposed(server, <<"l">>), server.name, <<"resources", "list">>, TRUE),
         Tool(Exposed(server, <<"r">>), server.name, <<"resources", "read">>, TRUE)>>

\* The tools a server has been found to have after each one it lists.
Seen(listed) ==
  LET seen[k \in 0..Len(listed)] == IF k = 0 THEN <<>> ELSE Unseen(seen[k - 1], listed[k])
  IN  seen

Listed(server) == RemoteTools(server) \o ResourceTools(server)

DiscoverTools(server) == Seen(Listed(server))[Len(Listed(server))]

(***************************************************************************)
(* The registry: a function from names to tools.                           *)
(***************************************************************************)

\* Mutant: the later of two tools of a name replaces the earlier.
Register_Replaces(registry, tool) ==
  [n \in DOMAIN registry \cup {tool.name} |-> IF n = tool.name THEN tool ELSE registry[n]]

Register(registry, tool) ==
  [n \in DOMAIN registry \cup {tool.name} |->
     IF n \in DOMAIN registry THEN registry[n] ELSE tool]

\* The registry after each of the tools.
Registering(registry, tools) ==
  LET reg[k \in 0..Len(tools)] == IF k = 0 THEN registry ELSE Register(reg[k - 1], tools[k])
  IN  reg

RegisterAll(registry, tools) == Registering(registry, tools)[Len(tools)]

ExecuteCommand == <<"e">>
BuiltinTools(allowExecute) ==
  <<Tool(<<"l">>, BuiltIn, <<"l">>, TRUE),
    Tool(<<"a", "_", "a">>, BuiltIn, <<"a", "_", "a">>, FALSE)>>
    \o (IF allowExecute THEN <<Tool(ExecuteCommand, BuiltIn, ExecuteCommand, FALSE)>> ELSE <<>>)

ConnectMcp(registry, server) ==
  IF Connects(server) THEN RegisterAll(registry, DiscoverTools(server)) ELSE registry

NoTools == [n \in {} |-> {}]

\* The registry after each of the servers.
Connecting(registry, servers) ==
  LET reg[k \in 0..Len(servers)] ==
        IF k = 0 THEN registry ELSE ConnectMcp(reg[k - 1], servers[k])
  IN  reg

BuildTools(allowExecute, servers) ==
  Connecting(RegisterAll(NoTools, BuiltinTools(allowExecute)), servers)[Len(servers)]

\* The tools an agent node is restricted to; it fails if one does not exist.
Subset(registry, names) ==
  IF names \subseteq DOMAIN registry THEN Restrict(registry, names) ELSE NoTools

(***************************************************************************)
(* Calls.                                                                  *)
(***************************************************************************)
Commands == {"matches", "differs", "absent"}

\* ToolPolicy::decide; an execute_command that cannot be inspected is denied.
Denies(mode, denylist, registry, name, command) ==
  \/ /\ mode = "read_only"
     /\ name \notin DOMAIN registry \/ ~registry[name].readOnly
  \/ name = ExecuteCommand /\ denylist /\ command # "differs"

\* Who serves a call of the agent: the server and the name it knows the tool by.
Serves(mode, denylist, registry, name, command) ==
  IF Denies(mode, denylist, registry, name, command) \/ name \notin DOMAIN registry
  THEN {} ELSE {<<registry[name].server, registry[name].remote>>}

\* What a server's answer is to the model, block by block; an answer with no block
\* falls back on its structured content.
ResultContent(blocks, structured) ==
  IF blocks = <<>> /\ structured THEN <<"text">>
  ELSE [k \in 1..Len(blocks) |-> IF blocks[k] = "image" THEN "image" ELSE "text"]

(***************************************************************************)
(* Properties.                                                             *)
(***************************************************************************)

\* Of a server that cannot be used nothing is known.
Offers == {s \in Server : Connects(s) \/ (s.tools = <<>> /\ ~s.resources)}

\* What there is to register: the built-in tools, then what each server offers.
Offered(allowExecute, servers) ==
  [s \in 0..Len(servers) |->
     IF s = 0 THEN BuiltinTools(allowExecute)
     ELSE IF Connects(servers[s]) THEN Listed(servers[s]) ELSE <<>>]

\* Tool k of offer s is the first of its name.
IsFirst(offered, s, k) ==
  \A i \in 0..s : \A j \in DOMAIN offered[i] :
    i < s \/ j < k => offered[i][j].name # offered[s][k].name

NamesAreFirstCome(registry, offered) ==
  /\ \A name \in DOMAIN registry :
       /\ registry[name].name = name
       /\ \E s \in DOMAIN offered : \E k \in DOMAIN offered[s] : registry[name] = offered[s][k]
  /\ \A s \in DOMAIN offered : \A k \in DOMAIN offered[s] :
       LET name == offered[s][k].name IN
       /\ name \in DOMAIN registry
       /\ IsFirst(offered, s, k) => registry[name] = offered[s][k]

ScopeOnlyNarrows(registry) ==
  \A n \in DOMAIN registry \cup {<<".">>}, m \in DOMAIN registry :
    LET scoped == Subset(registry, {n, m}) IN
    \A called \in DOMAIN registry \cup {<<".">>} :
      Serves("allow_all", FALSE, scoped, called, "differs") =
        IF n \in DOMAIN registry /\ called \in {n, m}
        THEN Serves("allow_all", FALSE, registry, called, "differs") ELSE {}

PolicyHolds(registry, offered) ==
  \A name \in DOMAIN registry \cup {<<".">>}, denylist \in BOOLEAN, command \in Commands :
    /\ \A who \in Serves("read_only", denylist, registry, name, command) :
         \E s \in DOMAIN offered : \E k \in DOMAIN offered[s] :
           /\ offered[s][k].readOnly
           /\ <<offered[s][k].server, offered[s][k].remote>> = who
    /\ <<BuiltIn, ExecuteCommand>> \in Serves("allow_all", TRUE, registry, name, command)
         => command = "differs"

\* For every configuration, and whichever servers are up.
EveryNameReachesItsTool ==
  \A servers \in SeqOf(Offers, MaxServers), allowExecute \in BOOLEAN :
    LET registry == BuildTools(allowExecute, servers)
        offered == Offered(allowExecute, servers) IN
    /\ \A name \in DOMAIN registry :
         ToSet(name) \subseteq Allowed /\ Len(name) \in 1..MaxToolName
    /\ NamesAreFirstCome(registry, offered)
    /\ ScopeOnlyNarrows(registry)
    /\ PolicyHolds(registry, offered)
=============================================================================
