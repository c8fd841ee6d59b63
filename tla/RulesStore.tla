----------------------------- MODULE RulesStore -----------------------------
(***************************************************************************)
(* Persistence of the rules created through the API (notify/http.go,       *)
(* notify/rules.go): the engine's UI rules, the JSON file they are saved   *)
(* to, failed saves, crashes and restarts with another configuration.      *)
(*                                                                         *)
(* A rule body is the one channel it names; that is what decides whether a *)
(* saved rule is still accepted after a restart. None stands for "no such  *)
(* rule". RulesAPI.mu admits one mutation at a time, so op is one record.  *)
(***************************************************************************)
EXTENDS Integers, FiniteSets

CONSTANTS
    Names,          \* rule names
    Channels,       \* notification channels; also the rule bodies
    None,
    MaxRestarts,    \* bound: restarts
    MaxOps          \* bound: API calls that pass validation

ASSUME RulesAssumption ==
    /\ None \notin Channels
    /\ MaxRestarts \in Nat /\ MaxOps \in Nat

VARIABLES
    up,         \* the process runs
    configured, \* channels of the running configuration
    cfgNames,   \* rule names owned by the configuration file
    engine,     \* name -> body of the engine's UI rule
    file,       \* name -> body in the rules file
    op,         \* the mutation holding RulesAPI.mu
    acked,      \* ghost: name -> what the last acknowledged call asked for
    unsure,     \* ghost: names whose latest call was not acknowledged
    shadowed,   \* ghost: names that a start found in the file and rejected
    restarts, ops

vars == <<up, configured, cfgNames, engine, file, op, acked, unsure, shadowed, restarts, ops>>

-----------------------------------------------------------------------------
Body == Channels \cup {None}
Idle == [step |-> "idle", name |-> None, body |-> None]

\* notify.New returns a nil engine without rules and channels, and RulesAPI
\* then rejects every write.
Enabled == up /\ ~(configured = {} /\ cfgNames = {})

\* notify.New fails, and the server does not start, when config rules have no channel.
Starts(channels, names) == channels = {} => names = {}

Init ==
    /\ up = TRUE
    /\ configured = Channels /\ cfgNames = {}
    /\ engine = [n \in Names |-> None] /\ file = [n \in Names |-> None]
    /\ op = Idle
    /\ acked = [n \in Names |-> None] /\ unsure = {} /\ shadowed = {}
    /\ restarts = 0 /\ ops = 0

\* buildRule and the ownership check of SetRule.
Accepted(n, b, channels, names) == b \in channels /\ n \notin names

\* upsert: SetRule puts the rule into the engine; the file comes after it.
Upsert(n, b) ==
    /\ Enabled /\ op = Idle /\ ops < MaxOps
    /\ Accepted(n, b, configured, cfgNames)
    /\ engine' = [engine EXCEPT ![n] = b]
    /\ op' = [step |-> "save", name |-> n, body |-> b]
    /\ unsure' = unsure \cup {n}
    /\ ops' = ops + 1
    /\ UNCHANGED <<up, configured, cfgNames, file, acked, shadowed, restarts>>

\* delete: DeleteRule fails for unknown names and for config rules.
Delete(n) ==
    /\ Enabled /\ op = Idle /\ ops < MaxOps
    /\ engine[n] # None
    /\ engine' = [engine EXCEPT ![n] = None]
    /\ op' = [step |-> "save", name |-> n, body |-> None]
    /\ unsure' = unsure \cup {n}
    /\ ops' = ops + 1
    /\ UNCHANGED <<up, configured, cfgNames, file, acked, shadowed, restarts>>

\* Mutant of SaveRenames: only the changed rule is written to the file.
SaveRenamesOne ==
    /\ up /\ op.step = "save"
    /\ file' = [n \in Names |-> IF n = op.name THEN op.body ELSE None]
    /\ op' = [op EXCEPT !.step = "reply"]
    /\ UNCHANGED <<up, configured, cfgNames, engine, acked, unsure, shadowed, restarts, ops>>

\* saveRulesFile: the temporary file replaces the old one in a single rename.
SaveRenames ==
    /\ up /\ op.step = "save"
    /\ file' = engine
    /\ op' = [op EXCEPT !.step = "reply"]
    /\ UNCHANGED <<up, configured, cfgNames, engine, acked, unsure, shadowed, restarts, ops>>

\* saveRulesFile fails before the rename: "rule applied but not persisted".
SaveFails ==
    /\ up /\ op.step = "save"
    /\ op' = Idle
    /\ UNCHANGED <<up, configured, cfgNames, engine, file, acked, unsure, shadowed, restarts, ops>>

\* The call is acknowledged with 204.
Reply ==
    /\ up /\ op.step = "reply"
    /\ acked' = [acked EXCEPT ![op.name] = op.body]
    /\ unsure' = unsure \ {op.name}
    /\ shadowed' = shadowed \ {op.name}
    /\ op' = Idle
    /\ UNCHANGED <<up, configured, cfgNames, engine, file, restarts, ops>>

\* The process ends, in the middle of a mutation or not.
Stop ==
    /\ up
    /\ up' = FALSE
    /\ op' = Idle
    /\ engine' = [n \in Names |-> None]
    /\ UNCHANGED <<configured, cfgNames, file, acked, unsure, shadowed, restarts, ops>>

\* Mutant of Loaded: the channels of saved rules are not checked again.
LoadedUnchecked(n, channels, names) == file[n]

\* Mutant of Loaded: one rejected rule ends the loading.
LoadedStopsAtReject(n, channels, names) ==
    IF \A m \in Names : file[m] # None => Accepted(m, file[m], channels, names)
    THEN file[n] ELSE None

\* NewRulesAPI: every saved rule goes through SetRule, rejected ones are skipped.
Loaded(n, channels, names) ==
    IF file[n] # None /\ Accepted(n, file[n], channels, names) THEN file[n] ELSE None

\* The server starts with a configuration that may differ from the last one.
Start ==
    /\ ~up /\ restarts < MaxRestarts
    /\ restarts' = restarts + 1
    /\ up' = TRUE
    /\ \E channels \in SUBSET Channels, names \in SUBSET Names :
          /\ Starts(channels, names)
          /\ configured' = channels /\ cfgNames' = names
          /\ IF channels = {} /\ names = {}
             THEN UNCHANGED <<engine, shadowed>>
             ELSE /\ engine' = [n \in Names |-> Loaded(n, channels, names)]
                  /\ shadowed' = shadowed \cup
                        {n \in Names : file[n] # None /\ ~Accepted(n, file[n], channels, names)}
    /\ UNCHANGED <<file, op, acked, unsure, ops>>

\* Every bound is used up.
Ended ==
    /\ ~up /\ restarts = MaxRestarts
    /\ UNCHANGED vars

Next ==
    \/ \E n \in Names, b \in Channels : Upsert(n, b)
    \/ \E n \in Names : Delete(n)
    \/ SaveRenames \/ SaveFails \/ Reply
    \/ Stop \/ Start \/ Ended

Spec == Init /\ [][Next]_vars

-----------------------------------------------------------------------------
(* Properties *)

TypeOK ==
    /\ up \in BOOLEAN
    /\ configured \subseteq Channels /\ cfgNames \subseteq Names
    /\ engine \in [Names -> Body] /\ file \in [Names -> Body] /\ acked \in [Names -> Body]
    /\ op \in [step : {"idle", "save", "reply"}, name : Names \cup {None}, body : Body]
    /\ unsure \subseteq Names /\ shadowed \subseteq Names
    /\ restarts \in 0 .. MaxRestarts /\ ops \in 0 .. MaxOps

\* What was acknowledged is in the file, across failed saves of other rules,
\* crashes at any point and restarts, unless a later call on the same rule was
\* not acknowledged or a start rejected the rule.
AckedIsSaved ==
    \A n \in Names : n \notin unsure \cup shadowed => file[n] = acked[n]

\* A running engine evaluates exactly the acknowledged rules, with the same
\* exceptions: nothing deleted comes back, nothing saved is left out.
EngineServesAcked ==
    (Enabled /\ op = Idle) =>
        \A n \in Names : n \notin unsure \cup shadowed => engine[n] = acked[n]

\* A running UI rule never names a channel that is not configured and never
\* takes the name of a config rule.
EngineRulesValid ==
    \A n \in Names : engine[n] # None => Accepted(n, engine[n], configured, cfgNames)

\* "Config rules are read-only from the API; UI rules survive restarts"
\* (rules.go:5): an acknowledged rule that no later call touched stays in the
\* file, whatever configurations the server was started with in between.
RulesSurviveRestarts ==
    \A n \in Names : n \notin unsure => file[n] = acked[n]
=============================================================================
