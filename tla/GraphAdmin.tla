----------------------------- MODULE GraphAdmin -----------------------------
(***************************************************************************)
(* The declared half of the architecture map: the declared graph and the   *)
(* service catalog, the HTTP handlers that replace, edit, import, export   *)
(* and merge them, and the SQLite tables they live in. One connection      *)
(* serves the database, so a statement (or a transaction) is one step, and *)
(* the handlers interleave between their statements: an import is a        *)
(* transaction for the graph and then one statement per catalog entry, a   *)
(* read of a graph is one query for the nodes and one for the edges.       *)
(***************************************************************************)
EXTENDS Integers, Sequences, SequencesExt, FiniteSets

CONSTANTS
    AdminApps,      \* service names
    Blank,          \* a name ValidateDeclared and ValidateMeta refuse
    Metas,          \* catalog contents ValidateMeta accepts
    BadMeta,        \* catalog contents it refuses (too long, bad link, ...)
    Graphs,         \* declared graphs that are sent: records of two sequences
    Catalogs,       \* catalogs of project files: sequences of [app, meta]
    Configs,        \* sets of apps the catalog section of logdoc.yml may define
    Observed,       \* observed topologies: [nodes : SUBSET apps, edges : SUBSET pairs]
    Clients,        \* concurrent HTTP requests
    MaxNodes, MaxEdges, \* maxDeclaredNodes, maxDeclaredEdges of the code
    MaxRequests,    \* bound: requests started
    MaxDbFailures   \* bound: statements that fail

ASSUME GraphAdminAssumption ==
    /\ Blank \notin AdminApps /\ BadMeta \notin Metas
    /\ Graphs \subseteq [nodes : Seq(AdminApps \cup {Blank}),
                         edges : Seq((AdminApps \cup {Blank}) \X (AdminApps \cup {Blank}))]
    /\ Catalogs \subseteq Seq([app : AdminApps \cup {Blank}, meta : Metas \cup {BadMeta}])
    /\ Configs \subseteq SUBSET AdminApps
    /\ MaxNodes \in Nat /\ MaxEdges \in Nat /\ MaxRequests \in Nat /\ MaxDbFailures \in Nat

Pairs == AdminApps \X AdminApps
NoMeta == "none"

VARIABLES
    config,        \* Catalog.config: apps the config file defines, fixed while the server runs
    catalog,       \* the catalog table: app -> meta, NoMeta when there is no row
    declNodes,     \* the declared_nodes table
    declEdges,     \* the declared_edges table
    observed,      \* the observed topology (nodes and edges tables)
    req,           \* req[c]: the request client c waits for
    started, dbFailures

adminTables == <<catalog, declNodes, declEdges>>
adminVars == <<config, catalog, declNodes, declEdges, observed, req, started, dbFailures>>

Idle == [op |-> "idle"]

AdminTypeOK ==
    /\ config \in SUBSET AdminApps
    /\ catalog \in [AdminApps -> Metas \cup {NoMeta}]
    /\ declNodes \subseteq AdminApps /\ declEdges \subseteq Pairs
    /\ observed \in Observed
    /\ \A c \in Clients :
          req[c].op \in {"idle", "list", "delete", "save", "imported", "read", "merged", "exported"}
    /\ started \in 0 .. MaxRequests /\ dbFailures \in 0 .. MaxDbFailures

AdminInit ==
    /\ config \in Configs
    /\ catalog = [a \in AdminApps |-> NoMeta]
    /\ declNodes = {} /\ declEdges = {}
    /\ observed \in Observed
    /\ req = [c \in Clients |-> Idle]
    /\ started = 0 /\ dbFailures = 0

(***************************************************************************)
(* Validation and merging                                                  *)
(***************************************************************************)

\* ValidateDeclared: bounds, required names, no self-loop, no duplicate.
ValidDeclared(g) ==
    /\ Len(g.nodes) <= MaxNodes /\ Len(g.edges) <= MaxEdges
    /\ ToSet(g.nodes) \subseteq AdminApps
    /\ ToSet(g.edges) \subseteq {e \in Pairs : e[1] # e[2]}
    /\ IsInjective(g.nodes) /\ IsInjective(g.edges)

ValidMeta(m) == m.app \in AdminApps /\ m.meta \in Metas

\* Mutant: only the declared nodes join the topology, not the endpoints of edges.
MergeDeclaredNodesOnly(topo, nodes, edges) ==
    [nodes |-> topo.nodes \cup nodes, declaredOnlyNodes |-> nodes \ topo.nodes,
     edges |-> topo.edges \cup edges, declared |-> edges]

\* mergeDeclared: the observed topology with the declared graph folded in. An
\* edge that is only declared brings the endpoints nobody listed as nodes.
MergeDeclared(topo, nodes, edges) ==
    LET declaredOnly == edges \ topo.edges
        ends == UNION {{e[1], e[2]} : e \in declaredOnly}
    IN [nodes |-> topo.nodes \cup nodes \cup ends,
        declaredOnlyNodes |-> (nodes \cup ends) \ topo.nodes,
        edges |-> topo.edges \cup edges,
        declared |-> edges]

\* The links a Mermaid diagram of the topology shows: those with both ends on it.
MermaidLinks(t) == {e \in t.edges : {e[1], e[2]} \subseteq t.nodes}

\* Catalog.List: the config entries, and the stored ones they do not shadow.
ListedApps == config \cup {a \in AdminApps : catalog[a] # NoMeta}

(***************************************************************************)
(* Requests                                                                *)
(***************************************************************************)

Begin(c) ==
    /\ req[c] = Idle /\ started < MaxRequests
    /\ started' = started + 1

\* A write by c makes the imports of the others that are under way impure.
Disturb(c, next) ==
    [d \in Clients |-> IF d = c THEN next
                       ELSE IF req[d].op \in {"list", "delete", "save", "imported"}
                            THEN [req[d] EXCEPT !.alone = FALSE]
                            ELSE req[d]]

Fails == dbFailures < MaxDbFailures /\ dbFailures' = dbFailures + 1
Works == UNCHANGED dbFailures

\* ReplaceDeclared: the two tables are cleared and filled in one transaction.
ReplaceDeclared(g) ==
    /\ declNodes' = ToSet(g.nodes)
    /\ declEdges' = ToSet(g.edges)

\* PUT /api/v1/topology/declared: a graph that does not validate, or a
\* transaction that fails, answers 400 and changes nothing.
DeclareTopology(c, g) ==
    /\ Begin(c) /\ ValidDeclared(g)
    /\ ReplaceDeclared(g) /\ Works
    /\ req' = Disturb(c, Idle)
    /\ UNCHANGED <<config, catalog, observed>>

\* PUT /api/v1/catalog/{app}
PutMeta(c, a, m) ==
    /\ Begin(c)
    /\ ValidMeta([app |-> a, meta |-> m]) /\ a \notin config
    /\ catalog' = [catalog EXCEPT ![a] = m] /\ Works
    /\ req' = Disturb(c, Idle)
    /\ UNCHANGED <<config, declNodes, declEdges, observed>>

\* DELETE /api/v1/catalog/{app}
DeleteMeta(c, a) ==
    /\ Begin(c)
    /\ a \notin config
    /\ catalog' = [catalog EXCEPT ![a] = NoMeta] /\ Works
    /\ req' = Disturb(c, Idle)
    /\ UNCHANGED <<config, declNodes, declEdges, observed>>

\* POST /api/v1/topology/project: the declared graph is replaced first ...
ImportDeclared(c, g, metas) ==
    /\ Begin(c) /\ ValidDeclared(g)
    /\ ReplaceDeclared(g) /\ Works
    /\ req' = Disturb(c, [op |-> "list", graph |-> g, metas |-> metas, drop |-> {}, at |-> 1,
                          alone |-> TRUE, clean |-> TRUE, before |-> catalog])
    /\ UNCHANGED <<config, catalog, observed>>

\* ... then the catalog is listed (an error is taken for an empty list) to find
\* the runtime entries the file does not have ...
Incoming(metas) == {m.app : m \in ToSet(metas)}

ImportList(c) ==
    /\ req[c].op = "list"
    /\ \/ /\ Works
          /\ req' = [req EXCEPT ![c].op = "delete",
                                ![c].drop = ListedApps \ (config \cup Incoming(req[c].metas))]
       \/ Fails /\ req' = [req EXCEPT ![c].op = "delete", ![c].clean = FALSE]
    /\ UNCHANGED <<config, adminTables, observed, started>>

\* ... which are deleted one by one, a failed delete being passed over ...
ImportDelete(c) ==
    /\ req[c].op = "delete" /\ req[c].drop # {}
    /\ \E a \in req[c].drop :
          LET rest == [req[c] EXCEPT !.drop = @ \ {a}] IN
          \/ /\ catalog' = [catalog EXCEPT ![a] = NoMeta] /\ Works
             /\ req' = Disturb(c, rest)
          \/ /\ Fails /\ req' = [req EXCEPT ![c] = [rest EXCEPT !.clean = FALSE]]
             /\ UNCHANGED catalog
    /\ UNCHANGED <<config, declNodes, declEdges, observed, started>>

ImportDeleted(c) ==
    /\ req[c].op = "delete" /\ req[c].drop = {}
    /\ req' = [req EXCEPT ![c].op = "save"]
    /\ UNCHANGED <<config, adminTables, observed, started, dbFailures>>

\* Mutant: an entry the config file defines is written too.
ImportSaveOverConfig(c) ==
    /\ req[c].op = "save" /\ req[c].at <= Len(req[c].metas)
    /\ LET m == req[c].metas[req[c].at]
           rest == [req[c] EXCEPT !.at = @ + 1]
       IN /\ catalog' = IF ValidMeta(m) THEN [catalog EXCEPT ![m.app] = m.meta] ELSE catalog
          /\ req' = Disturb(c, rest) /\ Works
    /\ UNCHANGED <<config, declNodes, declEdges, observed, started>>

\* ... and the entries of the file are put one by one; one that is refused or
\* fails is counted as skipped.
ImportSave(c) ==
    /\ req[c].op = "save" /\ req[c].at <= Len(req[c].metas)
    /\ LET m == req[c].metas[req[c].at]
           rest == [req[c] EXCEPT !.at = @ + 1]
       IN \/ /\ ValidMeta(m) /\ m.app \notin config
             /\ catalog' = [catalog EXCEPT ![m.app] = m.meta] /\ Works
             /\ req' = Disturb(c, rest)
          \/ /\ ~ValidMeta(m) \/ m.app \in config
             /\ req' = [req EXCEPT ![c] = rest] /\ Works
             /\ UNCHANGED catalog
          \/ /\ ValidMeta(m) /\ m.app \notin config /\ Fails
             /\ req' = [req EXCEPT ![c] = [rest EXCEPT !.clean = FALSE]]
             /\ UNCHANGED catalog
    /\ UNCHANGED <<config, declNodes, declEdges, observed, started>>

Imported(c) ==
    /\ req[c].op = "save" /\ req[c].at > Len(req[c].metas)
    /\ req' = [req EXCEPT ![c].op = "imported"]
    /\ UNCHANGED <<config, adminTables, observed, started, dbFailures>>

\* GET of the topology, an export or the project: Store.DeclaredGraph is a
\* query for the nodes and, after it, one for the edges. For the topology the
\* observed graph is read before them.
ReadNodes(c, for) ==
    /\ Begin(c)
    /\ req' = [req EXCEPT ![c] = [op |-> "read", for |-> for, topo |-> observed,
                                  nodes |-> declNodes]]
    /\ UNCHANGED <<config, adminTables, observed, dbFailures>>

ReadEdges(c) ==
    /\ req[c].op = "read"
    /\ req' = [req EXCEPT ![c] =
                 IF req[c].for = "topology"
                 THEN [op |-> "merged",
                       topo |-> req[c].topo,
                       answer |-> MergeDeclared(req[c].topo, req[c].nodes, declEdges)]
                 ELSE [op |-> "exported",
                       graph |-> [nodes |-> SetToSeq(req[c].nodes), edges |-> SetToSeq(declEdges)]]]
    /\ UNCHANGED <<config, adminTables, observed, started, dbFailures>>

\* One of the two queries fails: the topology goes out without the declared
\* graph, the project is answered with an error.
ReadFails(c) ==
    /\ req[c].op = "read" /\ Fails
    /\ req' = [req EXCEPT ![c] =
                 IF req[c].for = "topology"
                 THEN [op |-> "merged", topo |-> req[c].topo,
                       answer |-> MergeDeclared(req[c].topo, {}, {})]
                 ELSE Idle]
    /\ UNCHANGED <<config, adminTables, observed, started>>

\* The response is out.
Answered(c) ==
    /\ req[c].op \in {"imported", "merged", "exported"}
    /\ req' = [req EXCEPT ![c] = Idle]
    /\ UNCHANGED <<config, adminTables, observed, started, dbFailures>>

\* The server is restarted, perhaps with another config file; requests are cut.
RestartAdmin(newConfig) ==
    /\ started < MaxRequests
    /\ started' = started + 1
    /\ config' = newConfig
    /\ req' = [c \in Clients |-> Idle]
    /\ UNCHANGED <<adminTables, observed, dbFailures>>

AdminNext ==
    \/ \E c \in Clients :
          \/ \E g \in Graphs : DeclareTopology(c, g)
                               \/ \E metas \in Catalogs : ImportDeclared(c, g, metas)
          \/ \E a \in AdminApps : DeleteMeta(c, a) \/ \E m \in Metas : PutMeta(c, a, m)
          \/ ImportList(c) \/ ImportDelete(c) \/ ImportDeleted(c) \/ ImportSave(c) \/ Imported(c)
          \/ \E for \in {"topology", "project"} : ReadNodes(c, for)
          \/ ReadEdges(c) \/ ReadFails(c) \/ Answered(c)
    \/ \E newConfig \in Configs : RestartAdmin(newConfig)

AdminSafety == AdminInit /\ [][AdminNext]_adminVars

(***************************************************************************)
(* Properties                                                              *)
(***************************************************************************)

\* An import that met no failed statement and no other writer has replaced the
\* declared graph and the runtime catalog ("REPLACING the declared graph and
\* the runtime catalog (config-defined catalog entries stay untouched)"): an
\* app of the file has its last accepted entry there, an app whose entries were
\* all refused keeps what it had, every other listed app is gone, and the rows
\* of config-defined apps are as before.
ImportReplaces ==
    \A c \in Clients :
       req[c].op = "imported" /\ req[c].alone /\ req[c].clean =>
          LET metas == req[c].metas
              good(a) == {i \in DOMAIN metas : metas[i].app = a /\ ValidMeta(metas[i])}
          IN /\ declNodes = ToSet(req[c].graph.nodes) /\ declEdges = ToSet(req[c].graph.edges)
             /\ \A a \in AdminApps :
                   \/ a \in config /\ catalog[a] = req[c].before[a]
                   \/ a \notin config /\ good(a) # {}
                        /\ \E i \in good(a) : /\ \A j \in good(a) : j <= i
                                              /\ catalog[a] = metas[i].meta
                   \/ a \notin config /\ good(a) = {} /\ a \in Incoming(metas)
                        /\ catalog[a] = req[c].before[a]
                   \/ a \notin config \cup Incoming(metas) /\ catalog[a] = NoMeta

\* Whatever writes fall between the queries of a read, the answer is coherent:
\* every edge a topology adds to the observed ones is drawn on its diagram,
\* nothing observed is lost or marked as declared only, and an exported project
\* validates when it is imported again.
AnswersCoherent ==
    \A c \in Clients :
       /\ req[c].op = "merged" =>
             LET t == req[c].answer IN
             /\ t.edges \ req[c].topo.edges \subseteq MermaidLinks(t)
             /\ req[c].topo.nodes \subseteq t.nodes \ t.declaredOnlyNodes
             /\ t.nodes \ req[c].topo.nodes = t.declaredOnlyNodes
             /\ req[c].topo.edges \subseteq t.edges
       /\ req[c].op = "exported" => ValidDeclared(req[c].graph)
=============================================================================
