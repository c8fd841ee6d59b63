-------------------------- MODULE RulesStoreProofs --------------------------
(***************************************************************************)
(* Durability of acknowledged rules for any set of names and channels and  *)
(* any number of calls and restarts.                                       *)
(***************************************************************************)
EXTENDS RulesStore, TLAPS

Certain == Names \ (unsure \cup shadowed)

\* The mutation that holds the mutex: its rule is unsure until the reply, the
\* engine already has it, and after the rename the file is the engine.
Mutation ==
    /\ op # Idle => Enabled /\ op.name \in unsure /\ op.name \in Names
                    /\ engine[op.name] = op.body
    /\ op.step = "idle" => op = Idle
    /\ op.step = "reply" => file = engine

\* File and engine agree with the acknowledged rules wherever that is certain.
\* An engine that does not run, or runs without rules and channels, is empty.
Agreement ==
    /\ \A n \in Certain : file[n] = acked[n]
    /\ Enabled => \A n \in Certain : engine[n] = acked[n]
    /\ ~Enabled => engine = [n \in Names |-> None]

IInv == TypeOK /\ Mutation /\ Agreement /\ EngineRulesValid

\* A server that starts with an empty rules file satisfies the invariant.
LEMMA InitIInv == Init => IInv
<1> SUFFICES ASSUME Init PROVE IInv
  OBVIOUS
<1>1. TypeOK
  BY RulesAssumption DEF Init, TypeOK, Body, Idle
<1>2. Mutation
  BY DEF Init, Mutation, Idle
<1>3. Agreement
  BY DEF Init, Agreement, Certain
<1>4. EngineRulesValid
  BY DEF Init, EngineRulesValid
<1> QED
  BY <1>1, <1>2, <1>3, <1>4 DEF IInv

\* An API call changes the engine at one name, which becomes unsure.
LEMMA CallKeeps ==
    ASSUME IInv, NEW n \in Names,
           Delete(n) \/ \E b \in Channels : Upsert(n, b)
    PROVE  IInv'
<1>1. PICK b \in Body :
         /\ Enabled /\ op = Idle /\ ops < MaxOps
         /\ b # None => Accepted(n, b, configured, cfgNames)
         /\ engine' = [engine EXCEPT ![n] = b]
         /\ op' = [step |-> "save", name |-> n, body |-> b]
         /\ unsure' = unsure \cup {n}
         /\ ops' = ops + 1
         /\ UNCHANGED <<up, configured, cfgNames, file, acked, shadowed, restarts>>
  BY DEF Delete, Upsert, Body
<1>2. TypeOK'
  BY <1>1, RulesAssumption DEF IInv, TypeOK
<1>3. Mutation'
  BY <1>1 DEF IInv, TypeOK, Mutation, Idle, Enabled
<1>4. Agreement'
  BY <1>1 DEF IInv, TypeOK, Agreement, Certain, Enabled
<1>5. EngineRulesValid'
  BY <1>1 DEF IInv, TypeOK, EngineRulesValid, Accepted
<1> QED
  BY <1>2, <1>3, <1>4, <1>5 DEF IInv

\* saveRulesFile replaces the whole file or changes nothing.
LEMMA SaveKeeps == ASSUME IInv, SaveRenames \/ SaveFails PROVE IInv'
<1>1. /\ up /\ op.step = "save"
      /\ UNCHANGED <<up, configured, cfgNames, engine, acked, unsure, shadowed, restarts, ops>>
  BY DEF SaveRenames, SaveFails
<1>2. op # Idle /\ Enabled
  BY <1>1 DEF IInv, Mutation, Idle
<1>3. CASE SaveRenames
  <2>1. file' = engine /\ op' = [op EXCEPT !.step = "reply"]
    BY <1>3 DEF SaveRenames
  <2>2. TypeOK'
    BY <1>1, <2>1 DEF IInv, TypeOK
  <2>3. /\ op'.step = "reply" /\ op'.name = op.name /\ op'.body = op.body
    BY <2>1 DEF IInv, TypeOK
  <2>4. Mutation'
    BY <1>1, <1>2, <2>1, <2>3 DEF IInv, Mutation, Enabled
  <2>5. Agreement'
    BY <1>1, <1>2, <2>1 DEF IInv, Agreement, Certain, Enabled
  <2>6. EngineRulesValid'
    BY <1>1 DEF IInv, EngineRulesValid
  <2> QED
    BY <2>2, <2>4, <2>5, <2>6 DEF IInv
<1>4. CASE SaveFails
  <2>1. file' = file /\ op' = Idle
    BY <1>4 DEF SaveFails
  <2>2. TypeOK'
    BY <1>1, <2>1 DEF IInv, TypeOK, Idle, Body
  <2>3. Mutation'
    BY <2>1 DEF Mutation, Idle
  <2>4. Agreement'
    BY <1>1, <2>1 DEF IInv, Agreement, Certain, Enabled
  <2>5. EngineRulesValid'
    BY <1>1 DEF IInv, EngineRulesValid
  <2> QED
    BY <2>2, <2>3, <2>4, <2>5 DEF IInv
<1> QED
  BY <1>3, <1>4

\* An acknowledgement makes certain what file and engine already hold.
LEMMA ReplyKeeps == ASSUME IInv, Reply PROVE IInv'
<1>1. /\ up /\ op.step = "reply" /\ op' = Idle
      /\ acked' = [acked EXCEPT ![op.name] = op.body]
      /\ unsure' = unsure \ {op.name} /\ shadowed' = shadowed \ {op.name}
      /\ UNCHANGED <<up, configured, cfgNames, engine, file, restarts, ops>>
  BY DEF Reply
<1>2. /\ op # Idle /\ Enabled /\ op.name \in Names
      /\ engine[op.name] = op.body /\ file = engine
  BY <1>1 DEF IInv, Mutation, Idle
<1>3. TypeOK'
  BY <1>1, <1>2 DEF IInv, TypeOK, Idle, Body
<1>4. Mutation'
  BY <1>1 DEF Mutation, Idle
<1>5. Agreement'
  <2>1. Enabled' <=> Enabled
    BY <1>1 DEF Enabled
  <2>2. \A n \in Certain' : file[n] = acked'[n] /\ engine[n] = acked'[n]
    BY <1>1, <1>2 DEF IInv, TypeOK, Agreement, Certain
  <2> QED
    BY <1>1, <1>2, <2>1, <2>2 DEF Agreement
<1>6. EngineRulesValid'
  BY <1>1 DEF IInv, EngineRulesValid
<1> QED
  BY <1>3, <1>4, <1>5, <1>6 DEF IInv

\* The end of the process, at any point, touches only the engine.
LEMMA StopKeeps == ASSUME IInv, Stop PROVE IInv'
<1>1. /\ up' = FALSE /\ op' = Idle /\ engine' = [n \in Names |-> None]
      /\ UNCHANGED <<configured, cfgNames, file, acked, unsure, shadowed, restarts, ops>>
  BY DEF Stop
<1>2. TypeOK'
  BY <1>1 DEF IInv, TypeOK, Idle, Body
<1>3. Mutation'
  BY <1>1 DEF Mutation, Idle
<1>4. Agreement'
  BY <1>1 DEF IInv, Agreement, Certain, Enabled
<1>5. EngineRulesValid'
  BY <1>1 DEF EngineRulesValid
<1> QED
  BY <1>2, <1>3, <1>4, <1>5 DEF IInv

\* A start loads what the new configuration accepts and shadows the rest.
LEMMA StartKeeps == ASSUME IInv, Start PROVE IInv'
<1>1. PICK channels \in SUBSET Channels, names \in SUBSET Names :
         /\ configured' = channels /\ cfgNames' = names
         /\ IF channels = {} /\ names = {}
            THEN UNCHANGED <<engine, shadowed>>
            ELSE /\ engine' = [n \in Names |-> Loaded(n, channels, names)]
                 /\ shadowed' = shadowed \cup
                       {n \in Names : file[n] # None /\ ~Accepted(n, file[n], channels, names)}
  BY DEF Start
<1>2. /\ ~up /\ up' = TRUE /\ restarts < MaxRestarts /\ restarts' = restarts + 1
      /\ UNCHANGED <<file, op, acked, unsure, ops>>
  BY DEF Start
<1>3. ~Enabled /\ op = Idle /\ engine = [n \in Names |-> None]
  BY <1>2 DEF IInv, Mutation, Agreement, Enabled
<1>4. \A n \in Names : Loaded(n, channels, names) \in Body
  BY DEF IInv, TypeOK, Loaded, Body
<1>5. TypeOK'
  <2>1. engine' \in [Names -> Body] /\ shadowed' \subseteq Names
    BY <1>1, <1>4 DEF IInv, TypeOK
  <2>2. restarts' \in 0 .. MaxRestarts
    BY <1>2, RulesAssumption DEF IInv, TypeOK
  <2> QED
    BY <1>1, <1>2, <2>1, <2>2 DEF IInv, TypeOK
<1>6. Mutation'
  BY <1>2, <1>3 DEF Mutation, Idle
<1>7. CASE channels = {} /\ names = {}
  <2>1. UNCHANGED <<engine, shadowed>>
    BY <1>1, <1>7
  <2>2. ~Enabled'
    BY <1>1, <1>7 DEF Enabled
  <2>3. Agreement'
    BY <1>2, <1>3, <2>1, <2>2 DEF IInv, Agreement, Certain
  <2>4. EngineRulesValid'
    BY <1>3, <2>1 DEF EngineRulesValid
  <2> QED
    BY <1>5, <1>6, <2>3, <2>4 DEF IInv
<1>8. CASE ~(channels = {} /\ names = {})
  <2>1. /\ engine' = [n \in Names |-> Loaded(n, channels, names)]
        /\ shadowed' = shadowed \cup
              {n \in Names : file[n] # None /\ ~Accepted(n, file[n], channels, names)}
    BY <1>1, <1>8
  <2>2. Enabled'
    BY <1>1, <1>2, <1>8 DEF Enabled
  <2>3. \A n \in Certain' : n \in Certain /\ engine'[n] = file[n]
    BY <1>2, <2>1 DEF Certain, Loaded
  <2>4. Agreement'
    BY <1>2, <2>2, <2>3 DEF IInv, Agreement
  <2>5. EngineRulesValid'
    BY <1>1, <2>1 DEF EngineRulesValid, Loaded, Accepted
  <2> QED
    BY <1>5, <1>6, <2>4, <2>5 DEF IInv
<1> QED
  BY <1>7, <1>8

\* Every step preserves the invariant.
LEMMA NextIInv == IInv /\ [Next]_vars => IInv'
<1> SUFFICES ASSUME IInv, [Next]_vars PROVE IInv'
  OBVIOUS
<1>1. CASE \E n \in Names : Delete(n) \/ \E b \in Channels : Upsert(n, b)
  BY <1>1, CallKeeps
<1>2. CASE SaveRenames \/ SaveFails
  BY <1>2, SaveKeeps
<1>3. CASE Reply
  BY <1>3, ReplyKeeps
<1>4. CASE Stop
  BY <1>4, StopKeeps
<1>5. CASE Start
  BY <1>5, StartKeeps
<1>6. CASE UNCHANGED vars
  BY <1>6 DEF vars, IInv, TypeOK, Mutation, Agreement, Certain, Enabled, EngineRulesValid
<1> QED
  BY <1>1, <1>2, <1>3, <1>4, <1>5, <1>6 DEF Next, Ended

\* File, engine and acknowledged rules agree, as Mutation and Agreement say, in every
\* reachable state of API calls, failed saves, crashes and restarts.
THEOREM Invariance == Spec => []IInv
BY InitIInv, NextIInv, PTL DEF Spec

\* Types of the rules store.
THEOREM TypeCorrect == Spec => []TypeOK
<1>1. IInv => TypeOK
  BY DEF IInv
<1> QED
  BY <1>1, Invariance, PTL

\* An acknowledged rule is in the file through failed saves, crashes and
\* restarts, unless an unacknowledged call or a rejecting start intervened.
THEOREM AckedIsSavedHolds == Spec => []AckedIsSaved
<1>1. IInv => AckedIsSaved
  BY DEF IInv, Agreement, Certain, AckedIsSaved
<1> QED
  BY <1>1, Invariance, PTL

\* Under the same exceptions the running engine has exactly those rules.
THEOREM EngineServesAckedHolds == Spec => []EngineServesAcked
<1>1. IInv => EngineServesAcked
  BY DEF IInv, Agreement, Certain, EngineServesAcked
<1> QED
  BY <1>1, Invariance, PTL

\* No running UI rule uses a missing channel or a config rule's name.
THEOREM EngineRulesValidHolds == Spec => []EngineRulesValid
<1>1. IInv => EngineRulesValid
  BY DEF IInv
<1> QED
  BY <1>1, Invariance, PTL
=============================================================================
