--------------------------- MODULE QwiicBotProofs ---------------------------
(***************************************************************************)
(* Proofs about Parameters and QwiicBot: for every set of parameters and   *)
(* every sequence of requests, what a reply says is what happened and no   *)
(* parameter leaves its type or range; and, for every speed, turn, reading *)
(* and parameter, the obstacle veto, the command timeout and the ceiling   *)
(* on the efforts.                                                         *)
(***************************************************************************)
EXTENDS QwiicBot, TLAPS

(* The parameter server.                                                   *)

LEMMA PromotedTyped ==
  ASSUME NEW n \in Names, NEW value \in Values
  PROVE  Promoted(n, value) \in Values
BY DEF Promoted, Values, Types

\* A value that validates is admissible once promoted.
LEMMA ValidatesAdmits ==
  ASSUME NEW n \in Names, NEW value \in Values, Validates(n, value)
  PROVE  Admissible(n, Promoted(n, value))
BY ParameterAssumption DEF Validates, Admissible, Promoted, Values

LEMMA DefaultAdmitted ==
  ASSUME NEW n \in Names
  PROVE  Default(n) \in Values /\ Admissible(n, Default(n))
BY ParameterAssumption DEF Default, Admissible, Values

LEMMA SettingTyped == \A s \in Settings : s.value \in Values
BY ParameterAssumption

\* What one setting does to the parameters.
LEMMA StoredKeeps ==
  ASSUME params \in [Names -> Values], ParamsValid, NEW s, s.value \in Values, NEW accepts
  PROVE  /\ Stored(s, accepts) \in [Names -> Values]
         /\ \A n \in Names : Admissible(n, Stored(s, accepts)[n])
         /\ Succeeds(s, accepts) =>
              /\ s.name \in Names
              /\ Stored(s, accepts)[s.name] = Promoted(s.name, s.value)
              /\ \A n \in Names \ {s.name} : Stored(s, accepts)[n] = params[n]
         /\ ~ Succeeds(s, accepts) => Stored(s, accepts) = params
<1>1. CASE Succeeds(s, accepts)
  <2>1. s.name \in Names /\ Validates(s.name, s.value)
    BY <1>1 DEF Succeeds
  <2>2. /\ Promoted(s.name, s.value) \in Values
        /\ Admissible(s.name, Promoted(s.name, s.value))
    BY <2>1, PromotedTyped, ValidatesAdmits
  <2>3. Stored(s, accepts) = [params EXCEPT ![s.name] = Promoted(s.name, s.value)]
    BY <1>1 DEF Stored
  <2>4. /\ Stored(s, accepts) \in [Names -> Values]
        /\ Stored(s, accepts)[s.name] = Promoted(s.name, s.value)
        /\ \A n \in Names \ {s.name} : Stored(s, accepts)[n] = params[n]
    BY <2>1, <2>2, <2>3
  <2>5. \A n \in Names : Admissible(n, Stored(s, accepts)[n])
    BY <2>2, <2>4 DEF ParamsValid
  <2>6. QED
    BY <1>1, <2>1, <2>4, <2>5
<1>2. CASE ~ Succeeds(s, accepts)
  BY <1>2 DEF Stored, ParamsValid
<1>3. QED
  BY <1>1, <1>2

LEMMA NextSetting ==
  ASSUME ParamInv, done < Len(request)
  PROVE  /\ done \in Nat /\ Len(request) \in Nat /\ done + 1 \in 1..Len(request)
         /\ request[done + 1] \in Settings
         /\ request[done + 1].value \in Values
<1>1. request \in Seq(Settings) /\ done \in Nat /\ Len(request) \in Nat
  BY DEF ParamInv
<1>2. done + 1 \in 1..Len(request)
  BY <1>1
<1>3. QED
  BY <1>1, <1>2, SettingTyped

LEMMA AppendToSeq ==
  ASSUME NEW S, NEW s \in Seq(S), NEW e \in S
  PROVE  /\ Append(s, e) \in Seq(S)
         /\ Len(Append(s, e)) = Len(s) + 1
         /\ \A i \in 1..Len(s) : Append(s, e)[i] = s[i]
         /\ Append(s, e)[Len(s) + 1] = e
OBVIOUS

\* The results grow by one.
LEMMA ResultsGrow ==
  ASSUME ParamInv, NEW b \in BOOLEAN
  PROVE  /\ Append(results, b) \in Seq(BOOLEAN)
         /\ Len(Append(results, b)) = done + 1
         /\ DOMAIN results = 1..done
         /\ DOMAIN Append(results, b) = 1..(done + 1)
         /\ \A i \in 1..done : Append(results, b)[i] = results[i]
         /\ Append(results, b)[done + 1] = b
<1>1. done \in Nat /\ results \in Seq(BOOLEAN) /\ Len(results) = done
  BY DEF ParamInv
<1>2. QED
  BY <1>1, AppendToSeq

\* The parameters follow the results when setting done + 1 is added to those
\* reported as set, and when none is.
LEMMA OneMoreTold ==
  ASSUME ParamInv, done < Len(request), NEW accepts,
         Succeeds(request[done + 1], accepts),
         params' = Stored(request[done + 1], accepts),
         UNCHANGED <<request, snapshot>>,
         Applied' = Applied \cup {done + 1}
  PROVE  Told'
<1> DEFINE s == request[done + 1]
<1>1. /\ done \in Nat /\ s.value \in Values
      /\ Applied \subseteq 1..done
  BY NextSetting, ResultsGrow DEF Applied
<1>2. /\ s.name \in Names
      /\ params'[s.name] = Promoted(s.name, s.value)
      /\ \A n \in Names \ {s.name} : params'[n] = params[n]
  BY <1>1, StoredKeeps DEF ParamInv
<1> HIDE DEF s
<1>3. ASSUME NEW n \in Names, n = s.name
      PROVE  \E i \in Naming(n)' : /\ \A j \in Naming(n)' : j <= i
                                  /\ params'[n] = Promoted(n, request'[i].value)
  <2>1. done + 1 \in Naming(n)'
    BY <1>3 DEF Naming, s
  <2>2. \A j \in Naming(n)' : j <= done + 1
    BY <1>1 DEF Naming
  <2>3. params'[n] = Promoted(n, request'[done + 1].value)
    BY <1>2, <1>3 DEF s
  <2>4. QED
    BY <2>1, <2>2, <2>3
<1>4. ASSUME NEW n \in Names, n # s.name
      PROVE  Naming(n)' = Naming(n) /\ params'[n] = params[n]
  BY <1>2, <1>4 DEF Naming, s
<1>5. \A n \in Names : \A v : Promoted(n, v)' = Promoted(n, v)
  BY DEF Promoted
<1>6. QED
  BY <1>3, <1>4, <1>5 DEF Told, ParamInv

LEMMA NoMoreTold ==
  ASSUME Told, UNCHANGED <<params, request, snapshot, Applied>>
  PROVE  Told'
BY DEF Told, Naming, Promoted

\* Nothing reported as set, and nothing set.
LEMMA NothingTold ==
  ASSUME params' = snapshot', Applied' = {}
  PROVE  Told'
BY DEF Told, Naming

\* What stays true of the requests' bookkeeping when a setting was tried.
LEMMA TriedTyped ==
  ASSUME ParamInv, done < Len(request), NEW b \in BOOLEAN,
         done' = done + 1, results' = Append(results, b),
         UNCHANGED <<request, atomic, snapshot>>
  PROVE  /\ (request \in Seq(Settings) /\ atomic \in BOOLEAN /\ done \in 0..Len(request))'
         /\ (results \in Seq(BOOLEAN) /\ Len(results) = done)'
         /\ (snapshot \in [Names -> Values] /\ \A n \in Names : Admissible(n, snapshot[n]))'
<1>1. done \in Nat /\ Len(request) \in Nat /\ done + 1 \in 0..Len(request)
  BY NextSetting
<1>2. Append(results, b) \in Seq(BOOLEAN) /\ Len(Append(results, b)) = done + 1
  BY ResultsGrow
<1>3. QED
  BY <1>1, <1>2 DEF ParamInv, Admissible, Default

LEMMA SetEachKeeps ==
  ASSUME ParamInv, NEW accepts \in BOOLEAN, SetEach(accepts)
  PROVE  ParamInv'
<1> DEFINE s == request[done + 1]
           b == Succeeds(s, accepts)
<1>1. /\ serving = "setting" /\ ~ atomic /\ done < Len(request)
      /\ params' = Stored(s, accepts) /\ results' = Append(results, b)
      /\ done' = done + 1
      /\ UNCHANGED <<request, atomic, snapshot, serving>>
  BY DEF SetEach
<1>2. s.value \in Values /\ b \in BOOLEAN
  BY <1>1, NextSetting DEF Succeeds
<1> HIDE DEF s, b
<1>3. /\ (request \in Seq(Settings) /\ atomic \in BOOLEAN /\ done \in 0..Len(request))'
      /\ (results \in Seq(BOOLEAN) /\ Len(results) = done)'
      /\ (snapshot \in [Names -> Values] /\ \A n \in Names : Admissible(n, snapshot[n]))'
  BY <1>1, <1>2, TriedTyped
<1>4. params' \in [Names -> Values] /\ \A n \in Names : Admissible(n, params'[n])
  BY <1>1, <1>2, StoredKeeps DEF ParamInv
<1>5. (ParamsValid)'
  BY <1>4 DEF ParamsValid, Admissible, Default
<1>6. /\ DOMAIN results = 1..done /\ DOMAIN results' = 1..(done + 1) /\ done \in Nat
      /\ \A i \in 1..done : results'[i] = results[i]
      /\ results'[done + 1] = b
  BY <1>1, <1>2, ResultsGrow, NextSetting
<1>7. Applied = {i \in 1..done : results[i]} /\ Applied' = {i \in 1..(done + 1) : results'[i]}
  BY <1>1, <1>6 DEF Applied
<1>8. (Told)'
  <2>1. CASE b
    <3>1. \A i : i \in 1..(done + 1) <=> i \in 1..done \/ i = done + 1
      BY <1>6
    <3>2. results'[done + 1]
      BY <1>6, <2>1, Zenon
    <3>3. Applied' = Applied \cup {done + 1}
      BY <1>6, <1>7, <3>1, <3>2, Zenon
    <3>4. QED
      BY <1>1, <2>1, <3>3, OneMoreTold DEF b, s
  <2>2. CASE ~ b
    <3>1. Applied' = Applied
      BY <1>6, <1>7, <2>2
    <3>2. params' = params
      BY <1>1, <2>2 DEF b, Stored
    <3>3. QED
      BY <1>1, <3>1, <3>2, NoMoreTold DEF ParamInv
  <2>3. QED
    BY <2>1, <2>2
<1>9. QED
  BY <1>1, <1>3, <1>4, <1>5, <1>8 DEF ParamInv

LEMMA SetAtomicallyKeeps ==
  ASSUME ParamInv, NEW accepts \in BOOLEAN, SetAtomically(accepts)
  PROVE  ParamInv'
<1> DEFINE s == request[done + 1]
           b == Succeeds(s, accepts)
<1>1. /\ serving = "setting" /\ atomic /\ done < Len(request) /\ done' = done + 1
      /\ UNCHANGED <<request, atomic, snapshot>>
      /\ b => params' = Stored(s, accepts) /\ results' = Append(results, TRUE) /\ UNCHANGED serving
      /\ ~ b => params' = snapshot /\ results' = Append(results, FALSE) /\ serving' = "reply"
  BY DEF SetAtomically, Restored
<1>2. s.value \in Values /\ b \in BOOLEAN
  BY <1>1, NextSetting DEF Succeeds
<1> HIDE DEF s, b
<1>3. results' = Append(results, b)
  BY <1>1, <1>2
<1>4. /\ (request \in Seq(Settings) /\ atomic \in BOOLEAN /\ done \in 0..Len(request))'
      /\ (results \in Seq(BOOLEAN) /\ Len(results) = done)'
      /\ (snapshot \in [Names -> Values] /\ \A n \in Names : Admissible(n, snapshot[n]))'
  BY <1>1, <1>2, <1>3, TriedTyped
<1>5. params' \in [Names -> Values] /\ \A n \in Names : Admissible(n, params'[n])
  <2>1. CASE b
    BY <1>1, <1>2, <2>1, StoredKeeps DEF ParamInv
  <2>2. CASE ~ b
    BY <1>1, <2>2 DEF ParamInv
  <2>3. QED
    BY <2>1, <2>2
<1>6. (ParamsValid)'
  BY <1>5 DEF ParamsValid, Admissible, Default
<1>7. /\ DOMAIN results = 1..done /\ DOMAIN results' = 1..(done + 1) /\ done \in Nat
      /\ \A i \in 1..done : results'[i] = results[i]
      /\ results'[done + 1] = b
      /\ \A i \in 1..done : results[i]
  BY <1>1, <1>2, <1>3, ResultsGrow, NextSetting DEF ParamInv
<1>8. Applied = 1..done
  BY <1>7 DEF Applied
<1>9. (Told)'
  <2>1. CASE b
    <3>1. \A i \in 1..(done + 1) : results'[i]
      <4>1. results'[done + 1]
        BY <1>7, <2>1, Zenon
      <4>2. \A i \in 1..done : results'[i]
        BY <1>7
      <4>3. \A i \in 1..(done + 1) : i \in 1..done \/ i = done + 1
        BY <1>7
      <4>4. QED
        BY <4>1, <4>2, <4>3, Zenon
    <3>2. Applied' = Applied \cup {done + 1}
      BY <1>7, <1>8, <3>1 DEF Applied
    <3>3. QED
      BY <1>1, <2>1, <3>2, OneMoreTold DEF b, s
  <2>2. CASE ~ b
    <3>1. Applied' = {}
      BY <1>1, <1>7, <2>2 DEF Applied
    <3>2. QED
      BY <1>1, <2>2, <3>1, NothingTold
  <2>3. QED
    BY <2>1, <2>2
<1>10. (atomic /\ serving = "setting" => \A i \in 1..done : results[i])'
  BY <1>1, <1>7
<1>11. serving' \in {"setting", "reply"}
  BY <1>1
<1>12. QED
  BY <1>4, <1>5, <1>6, <1>9, <1>10, <1>11 DEF ParamInv

\* A request that arrives or was answered, a local setting, a node that is
\* built anew: nothing is reported as set.
Quiet == /\ request' \in Seq(Settings) /\ atomic' \in BOOLEAN
         /\ done' = 0 /\ results' = << >> /\ serving' \in {"no", "setting"}
         /\ params' \in [Names -> Values] /\ snapshot' = params'
         /\ \A n \in Names : Admissible(n, params'[n])

LEMMA QuietKeeps == Quiet => ParamInv'
<1> SUFFICES ASSUME Quiet PROVE ParamInv'
  OBVIOUS
<1>1. results' \in Seq(BOOLEAN) /\ Len(results') = 0 /\ DOMAIN results' = {}
  BY DEF Quiet
<1>2. Len(request') \in Nat
  BY DEF Quiet
<1>3. Applied' = {}
  BY <1>1 DEF Applied
<1>4. (Told)'
  BY <1>3, NothingTold DEF Quiet
<1>5. (ParamsValid)' /\ (\A n \in Names : Admissible(n, snapshot[n]))'
  BY DEF Quiet, ParamsValid, Admissible, Default
<1>6. \A i \in 1..done' : results'[i]
  BY DEF Quiet
<1>7. QED
  BY <1>1, <1>2, <1>4, <1>5, <1>6 DEF Quiet, ParamInv

LEMMA RequestTyped ==
  ASSUME NEW settings \in Requests
  PROVE  settings \in Seq(Settings)
<1>1. PICK n \in 0..MaxSettings : settings \in [1..n -> Settings]
  BY DEF Requests
<1>2. n \in Nat
  BY ParameterAssumption
<1>3. QED
  BY <1>1, <1>2

LEMMA RequestKeeps ==
  ASSUME ParamInv, NEW settings \in Requests, NEW atomically \in BOOLEAN,
         Request(settings, atomically)
  PROVE  ParamInv'
<1>1. settings \in Seq(Settings)
  BY RequestTyped
<1>2. params \in [Names -> Values] /\ \A n \in Names : Admissible(n, params[n])
  BY DEF ParamInv, ParamsValid
<1>3. Quiet
  BY <1>1, <1>2 DEF Quiet, Request
<1>4. QED
  BY <1>3, QuietKeeps

LEMMA ReturnKeeps == ParamInv /\ Return => ParamInv'
<1> SUFFICES ASSUME ParamInv, Return PROVE ParamInv'
  OBVIOUS
<1>1. params \in [Names -> Values] /\ \A n \in Names : Admissible(n, params[n])
  BY DEF ParamInv, ParamsValid
<1>2. << >> \in Seq(Settings)
  OBVIOUS
<1>3. Quiet
  BY <1>1, <1>2 DEF Quiet, Return
<1>4. QED
  BY <1>3, QuietKeeps

\* A handler that is not serving has nothing to report.
LEMMA SetLocallyKeeps ==
  ASSUME ParamInv, NEW s, s.value \in Values, NEW accepts \in BOOLEAN, SetLocally(s, accepts)
  PROVE  ParamInv'
<1>1. /\ params' = Stored(s, accepts) /\ snapshot' = params' /\ serving = "no"
      /\ UNCHANGED <<request, atomic, done, results, serving>>
  BY DEF SetLocally
<1>2. params' \in [Names -> Values] /\ \A n \in Names : Admissible(n, params'[n])
  BY <1>1, StoredKeeps DEF ParamInv
<1>3. Quiet
  BY <1>1, <1>2 DEF Quiet, ParamInv
<1>4. QED
  BY <1>3, QuietKeeps

LEMMA StillKeeps ==
  ASSUME ParamInv, UNCHANGED <<params, request, atomic, done, results, snapshot>>,
         serving' = serving \/ Answer
  PROVE  ParamInv'
<1>1. Applied' = Applied
  BY DEF Applied
<1>2. (Told)'
  BY <1>1, NoMoreTold DEF ParamInv
<1>3. (ParamsValid)' /\ (\A n \in Names : Admissible(n, snapshot[n]))'
  BY DEF ParamInv, ParamsValid, Admissible, Default
<1>4. serving' = serving \/ serving' = "reply"
  BY DEF Answer
<1>5. QED
  BY <1>2, <1>3, <1>4 DEF ParamInv

LEMMA ServiceTyped ==
  ASSUME NEW value \in 0..1
  PROVE  [name |-> "autonomous", value |-> [type |-> "BOOL", data |-> value]].value \in Values
BY DEF Values, Types

LEMMA ParamInitKeeps == ParamInit => ParamInv
<1> SUFFICES ASSUME ParamInit PROVE ParamInv
  OBVIOUS
<1>1. params \in [Names -> Values] /\ \A n \in Names : Admissible(n, params[n])
  BY DefaultAdmitted DEF ParamInit
<1>2. results = << >> /\ Len(results) = 0 /\ DOMAIN results = {} /\ results \in Seq(BOOLEAN)
      /\ request \in Seq(Settings) /\ Len(request) = 0
  BY DEF ParamInit
<1>3. Told
  <2>1. \A n \in Names : Naming(n) = {}
    BY <1>2 DEF Naming, Applied
  <2>2. QED
    BY <2>1 DEF ParamInit, Told
<1>4. ParamsValid /\ snapshot = params /\ \A n \in Names : Admissible(n, snapshot[n])
  BY <1>1 DEF ParamInit, ParamsValid
<1>5. atomic = FALSE /\ done = 0 /\ serving = "no" /\ done \in 0..Len(request)
  BY <1>2 DEF ParamInit
<1>6. QED
  BY <1>1, <1>2, <1>3, <1>4, <1>5 DEF ParamInv

LEMMA RebuildKeeps == ParamInv /\ Rebuild => ParamInv'
<1> SUFFICES ASSUME ParamInv, Rebuild PROVE ParamInv'
  OBVIOUS
<1>1. params' \in [Names -> Values] /\ \A n \in Names : Admissible(n, params'[n])
  BY DefaultAdmitted DEF Rebuild
<1>2. Quiet
  BY <1>1 DEF Quiet, Rebuild, ParamInv
<1>3. QED
  BY <1>2, QuietKeeps

LEMMA ParamStep == ParamInv /\ [Next]_vars => ParamInv'
<1> SUFFICES ASSUME ParamInv, [Next]_vars PROVE ParamInv'
  OBVIOUS
<1>1. CASE Serve
  <2>1. \/ \E settings \in Requests, atomically \in BOOLEAN : Request(settings, atomically)
        \/ \E accepts \in BOOLEAN : SetEach(accepts) \/ SetAtomically(accepts)
        \/ Answer \/ Return
    BY <1>1 DEF Serve
  <2>2. Answer => UNCHANGED <<params, request, atomic, done, results, snapshot>>
    BY DEF Answer
  <2>3. QED
    BY <2>1, <2>2, RequestKeeps, SetEachKeeps, SetAtomicallyKeeps, ReturnKeeps, StillKeeps
<1>2. CASE OnAutonomousSrv
  <2>1. PICK value \in 0..1 : \E accepts \in BOOLEAN :
          SetLocally([name |-> "autonomous", value |-> [type |-> "BOOL", data |-> value]], accepts)
    BY <1>2 DEF OnAutonomousSrv
  <2>2. QED
    BY <2>1, ServiceTyped, SetLocallyKeeps
<1>3. CASE Rebuild
  BY <1>3, RebuildKeeps
<1>4. CASE OnCmdVel \/ ControlStep \/ Tick \/ UNCHANGED vars
  <2>1. UNCHANGED paramVars
    BY <1>4 DEF OnCmdVel, ControlStep, Tick, vars
  <2>2. QED
    BY <2>1, StillKeeps DEF paramVars
<1>5. QED
  BY <1>1, <1>2, <1>3, <1>4 DEF Next

\* The bookkeeping of requests is sound whatever is asked and refused.
THEOREM ParametersSound == Spec => []ParamInv
<1>1. Init => ParamInv
  BY ParamInitKeeps DEF Init
<1>2. QED
  BY <1>1, ParamStep, PTL DEF Spec

\* No sequence of requests, refusals and roll-backs gives a parameter a value
\* of another type or out of its range, or changes a read-only one.
THEOREM ParametersValid == Spec => []ParamsValid
<1>1. ParamInv => ParamsValid
  BY DEF ParamInv
<1>2. QED
  BY ParametersSound, <1>1, PTL

\* Every reply tells exactly what was set; a refused atomic request sets nothing.
THEOREM RepliesAreTrue == Spec => []RepliesTrue
<1>1. ParamInv => RepliesTrue
  BY DEF ParamInv, RepliesTrue
<1>2. QED
  BY ParametersSound, <1>1, PTL

-----------------------------------------------------------------------------
(* The server implements ParameterStore: an atomic request takes effect    *)
(* with its answer, and until then the store is the snapshot.              *)

LEMMA AskedKept ==
  ASSUME request' = request
  PROVE  Asked' = Asked
BY DEF Asked, Promoted

\* The assignments of a request are as many as its settings.
LEMMA AskedLength ==
  ASSUME ParamInv
  PROVE  /\ DOMAIN Asked = 1..Len(request) /\ Len(Asked) = Len(request)
         /\ \A i \in 1..Len(request) : Asked[i].name = request[i].name
         /\ \A i \in 1..Len(request) :
              request[i].name \in Names =>
                Asked[i].value = Promoted(request[i].name, request[i].value)
<1>1. Len(request) \in Nat /\ DOMAIN request = 1..Len(request)
  BY DEF ParamInv
<1>2. DOMAIN Asked = 1..Len(request)
  BY <1>1 DEF Asked
<1>3. Asked \in Seq({Asked[i] : i \in 1..Len(request)})
  <2>1. Asked = [i \in 1..Len(request) |-> Asked[i]]
    BY <1>1 DEF Asked
  <2>2. Asked \in [1..Len(request) -> {Asked[i] : i \in 1..Len(request)}]
    BY <2>1
  <2>3. QED
    BY <1>1, <2>2
<1>4. Len(Asked) = Len(request)
  BY <1>1, <1>2, <1>3
<1>5. QED
  BY <1>1, <1>2, <1>4 DEF Asked

\* One setting of an ordinary request is one assignment.
LEMMA SetEachAssigns ==
  ASSUME ParamInv, NEW accepts \in BOOLEAN, SetEach(accepts)
  PROVE  \E succeeds \in BOOLEAN : Store!Assign(succeeds)
<1> DEFINE s == request[done + 1]
           b == Succeeds(s, accepts)
<1>1. /\ serving = "setting" /\ ~ atomic /\ done < Len(request)
      /\ params' = Stored(s, accepts) /\ results' = Append(results, b)
      /\ UNCHANGED <<request, atomic, serving>>
  BY DEF SetEach
<1>2. b \in BOOLEAN
  BY <1>1, NextSetting DEF Succeeds
<1>3. ~ Midway /\ ~ Midway'
  BY <1>1 DEF Midway
<1>4. Len(results) = done /\ done + 1 \in 1..Len(request)
  BY <1>1, NextSetting DEF ParamInv
<1>5. Len(Asked) = Len(request) /\ Asked[done + 1].name = s.name
  BY <1>4, AskedLength
<1>6. params' = IF b THEN [params EXCEPT ![Asked[done + 1].name] = Asked[done + 1].value]
                ELSE params
  <2>1. CASE b
    <3>1. s.name \in Names
      BY <2>1 DEF Succeeds
    <3>2. Asked[done + 1].value = Promoted(s.name, s.value)
      BY <1>4, <3>1, AskedLength
    <3>3. QED
      BY <1>1, <1>5, <2>1, <3>2 DEF Stored
  <2>2. CASE ~ b
    BY <1>1, <2>2 DEF Stored
  <2>3. QED
    BY <2>1, <2>2
<1> HIDE DEF s, b
<1>7. Store!Assign(b)
  BY <1>1, <1>3, <1>4, <1>5, <1>6, AskedKept DEF Store!Assign
<1>8. QED
  BY <1>2, <1>7

\* One setting of an atomic request shows nothing, or it ends it.
LEMMA SetAtomicallyRefuses ==
  ASSUME ParamInv, NEW accepts \in BOOLEAN, SetAtomically(accepts)
  PROVE  \/ \E last \in 1..Len(Asked) : Store!Refuse(last)
         \/ UNCHANGED Store!vars
<1> DEFINE b == Succeeds(request[done + 1], accepts)
<1>1. /\ serving = "setting" /\ atomic /\ done < Len(request)
      /\ UNCHANGED <<request, atomic, snapshot>>
      /\ b => serving' = serving
      /\ ~ b => /\ params' = snapshot /\ results' = Append(results, FALSE)
                /\ serving' = "reply"
  BY DEF SetAtomically, Restored
<1> HIDE DEF b
<1>2. Midway
  BY <1>1 DEF Midway
<1>3. CASE b
  <2>1. Midway' /\ serving' = serving
    BY <1>1, <1>3 DEF Midway
  <2>2. QED
    BY <1>1, <1>2, <2>1, AskedKept DEF Store!vars
<1>4. CASE ~ b
  <2>1. ~ Midway'
    BY <1>1, <1>4 DEF Midway
  <2>2. done + 1 \in 1..Len(Asked) /\ done \in Nat
    BY <1>1, NextSetting, AskedLength
  <2>3. results' = [i \in 1..(done + 1) |-> i < done + 1]
    <3>1. \A i \in 1..done : results[i]
      BY <1>1 DEF ParamInv
    <3>2. /\ results \in Seq(BOOLEAN) /\ Len(results) = done
          /\ \A i \in 1..done : results[i] = TRUE
      BY <3>1 DEF ParamInv
    <3>3. results' \in Seq(BOOLEAN) /\ DOMAIN results' = 1..(done + 1)
      BY <1>1, <1>4, ResultsGrow
    <3>4. \A i \in 1..(done + 1) : results'[i] = (i < done + 1)
      <4>1. results'[done + 1] = FALSE /\ \A i \in 1..done : results'[i] = TRUE
        BY <1>1, <1>4, <3>2, ResultsGrow
      <4>2. \A i \in 1..(done + 1) : (i \in 1..done /\ i < done + 1)
                                  \/ (i = done + 1 /\ ~ (i < done + 1))
        BY <2>2
      <4>3. ASSUME NEW i \in 1..(done + 1) PROVE results'[i] = (i < done + 1)
        <5>1. CASE i \in 1..done /\ i < done + 1
          <6>1. results'[i] = TRUE
            BY <4>1, <5>1
          <6>2. (i < done + 1) = TRUE
            BY <5>1, Zenon
          <6>3. QED
            BY <6>1, <6>2, Zenon
        <5>2. CASE i = done + 1 /\ ~ (i < done + 1)
          <6>1. results'[i] = FALSE
            BY <4>1, <5>2
          <6>2. (i < done + 1) = FALSE
            BY <2>2, <5>2
          <6>3. QED
            BY <6>1, <6>2, Zenon
        <5>3. QED
          BY <4>2, <5>1, <5>2, Zenon
      <4>4. QED
        BY <4>3, Zenon
    <3>5. results' = [i \in 1..(done + 1) |-> results'[i]]
      BY <3>3
    <3>6. QED
      BY <3>4, <3>5, Zenon
  <2>4. Store!Refuse(done + 1)
    BY <1>1, <1>2, <1>4, <2>1, <2>3, AskedKept DEF Store!Refuse
  <2>5. QED
    BY <2>2, <2>4
<1>5. QED
  BY <1>3, <1>4

\* The answer to an atomic request of which nothing was refused.
LEMMA AnswerCommits ==
  ASSUME ParamInv, Answer, atomic
  PROVE  Store!Commit
<1>1. /\ serving = "setting" /\ done = Len(request) /\ serving' = "reply"
      /\ UNCHANGED <<params, request, atomic, results>>
  BY DEF Answer
<1>2. Midway /\ ~ Midway' /\ Asked' = Asked
  BY <1>1, AskedKept DEF Midway
<1>3. /\ results \in Seq(BOOLEAN) /\ Len(results) = done /\ done \in Nat
      /\ \A i \in 1..done : results[i]
  BY <1>1 DEF ParamInv
<1>4. results = [i \in DOMAIN Asked |-> TRUE]
  <2>1. DOMAIN Asked = 1..done /\ DOMAIN results = 1..done
    BY <1>1, <1>3, AskedLength
  <2>2. \A i \in 1..done : results[i] = TRUE
    BY <1>3
  <2>3. results = [i \in 1..done |-> results[i]]
    BY <1>3, <2>1
  <2>4. QED
    BY <2>1, <2>2, <2>3, Zenon
<1>5. \A n \in Names : Naming(n) = Store!Naming(n)
  <2>1. Applied = 1..Len(request)
    <3>1. DOMAIN results = 1..Len(request)
      BY <1>1, <1>3
    <3>2. \A i \in DOMAIN results : results[i]
      BY <1>1, <1>3, <3>1
    <3>3. Applied = {i \in DOMAIN results : results[i]}
      BY <3>2, Zenon DEF Applied
    <3>4. {i \in DOMAIN results : results[i]} = DOMAIN results
      BY <3>2, Zenon
    <3>5. QED
      BY <3>1, <3>3, <3>4
  <2>2. QED
    BY <2>1, AskedLength DEF Naming, Store!Naming
<1>6. ASSUME NEW n \in Names
      PROVE  params[n] = IF Store!Naming(n) = {} THEN snapshot[n]
                         ELSE Asked[Store!Latest(n)].value
  <2>1. CASE Naming(n) = {}
    BY <1>5, <2>1 DEF ParamInv, Told
  <2>2. CASE Naming(n) # {}
    <3>1. PICK i \in Naming(n) : /\ \A j \in Naming(n) : j <= i
                                 /\ params[n] = Promoted(n, request[i].value)
      BY <2>2 DEF ParamInv, Told
    <3>2. Naming(n) \subseteq 1..Len(request) /\ request[i].name = n
      BY <1>5, <3>1, AskedLength DEF Store!Naming, Naming
    <3>3. \A k \in Naming(n) : (\A j \in Naming(n) : j <= k) => k = i
      BY <1>3, <3>1, <3>2
    <3>4. Store!Latest(n) = i
      BY <1>5, <3>1, <3>3 DEF Store!Latest
    <3>5. Asked[i].value = Promoted(n, request[i].value)
      BY <3>1, <3>2, AskedLength
    <3>6. QED
      BY <1>5, <2>2, <3>1, <3>4, <3>5
  <2>3. QED
    BY <2>1, <2>2
<1>7. params = [n \in Names |-> IF Store!Naming(n) = {} THEN snapshot[n]
                                ELSE Asked[Store!Latest(n)].value]
  <2>1. params = [n \in Names |-> params[n]]
    BY DEF ParamInv
  <2>2. QED
    BY <1>6, <2>1, Zenon
<1>8. QED
  BY <1>1, <1>2, <1>4, <1>7 DEF Store!Commit

LEMMA ServeMaps ==
  ASSUME ParamInv, Serve
  PROVE  [Store!Next]_(Store!vars)
<1> USE DEF Store!Next
<1>1. ASSUME NEW settings \in Requests, NEW atomically \in BOOLEAN,
             Request(settings, atomically)
      PROVE  Store!Receive
  <2>1. /\ serving = "no" /\ serving' = "setting" /\ results' = << >>
        /\ snapshot' = params /\ params' = params
    BY <1>1 DEF Request
  <2>2. ~ Midway
    BY <2>1 DEF Midway
  <2>3. QED
    BY <2>1, <2>2 DEF Store!Receive
<1>2. CASE \E accepts \in BOOLEAN : SetEach(accepts)
  BY <1>2, SetEachAssigns
<1>3. CASE \E accepts \in BOOLEAN : SetAtomically(accepts)
  BY <1>3, SetAtomicallyRefuses
<1>4. CASE Answer
  <2>1. CASE atomic
    BY <1>4, <2>1, AnswerCommits
  <2>2. CASE ~ atomic
    <3>1. /\ serving = "setting" /\ serving' = "reply" /\ done = Len(request)
          /\ UNCHANGED <<params, request, atomic, results>>
      BY <1>4 DEF Answer
    <3>2. ~ Midway /\ ~ Midway' /\ Asked' = Asked
      BY <2>2, <3>1, AskedKept DEF Midway
    <3>3. Len(results) = Len(Asked)
      BY <3>1, AskedLength DEF ParamInv
    <3>4. Store!Answer
      BY <2>2, <3>1, <3>2, <3>3 DEF Store!Answer
    <3>5. QED
      BY <3>4
  <2>3. QED
    BY <2>1, <2>2
<1>5. CASE Return
  <2>1. /\ serving = "reply" /\ serving' = "no" /\ request' = << >>
        /\ results' = << >> /\ atomic' = FALSE /\ params' = params
    BY <1>5 DEF Return
  <2>2. ~ Midway /\ ~ Midway'
    BY <2>1 DEF Midway
  <2>3. Asked' = << >>
    BY <2>1 DEF Asked
  <2>4. Store!Return
    BY <2>1, <2>2, <2>3 DEF Store!Return
  <2>5. QED
    BY <2>4
<1>6. QED
  BY <1>1, <1>2, <1>3, <1>4, <1>5 DEF Serve

LEMMA OutsideMaps ==
  ASSUME ParamInv, \/ OnAutonomousSrv \/ Rebuild
                   \/ OnCmdVel \/ ControlStep \/ Tick \/ UNCHANGED vars
  PROVE  [Store!Next]_(Store!vars)
<1> USE DEF Store!Next
<1>1. CASE OnAutonomousSrv
  <2>1. PICK value \in 0..1, accepts \in BOOLEAN :
          SetLocally([name |-> "autonomous", value |-> [type |-> "BOOL", data |-> value]], accepts)
    BY <1>1 DEF OnAutonomousSrv
  <2> DEFINE s == [name |-> "autonomous", value |-> [type |-> "BOOL", data |-> value]]
  <2>2. /\ serving = "no" /\ params' = Stored(s, accepts)
        /\ UNCHANGED <<request, atomic, results, serving>>
    BY <2>1 DEF SetLocally
  <2>3. ~ Midway /\ ~ Midway' /\ Asked' = Asked
    BY <2>2, AskedKept DEF Midway
  <2>4. s.value \in Values /\ s.name = "autonomous" /\ "autonomous" \in Names
    BY ServiceTyped, BotAssumption
  <2>5. \A m \in Names \ {"autonomous"} : params'[m] = params[m]
    BY <2>2, <2>4, StoredKeeps DEF ParamInv
  <2> HIDE DEF s
  <2>6. Store!Local("autonomous")
    BY <2>2, <2>3, <2>5 DEF Store!Local
  <2>7. QED
    BY <2>4, <2>6
<1>2. CASE Rebuild
  <2>1. /\ serving = "no" /\ params' = [n \in Names |-> Default(n)]
        /\ UNCHANGED <<request, atomic, results, serving>>
    BY <1>2 DEF Rebuild
  <2>2. ~ Midway /\ ~ Midway' /\ Asked' = Asked
    BY <2>1, AskedKept DEF Midway
  <2>3. Store!Restart
    BY <2>1, <2>2 DEF Store!Restart
  <2>4. QED
    BY <2>3
<1>3. CASE OnCmdVel \/ ControlStep \/ Tick \/ UNCHANGED vars
  <2>1. UNCHANGED paramVars
    BY <1>3 DEF OnCmdVel, ControlStep, Tick, vars
  <2>2. Midway' = Midway /\ Asked' = Asked
    BY <2>1, AskedKept DEF Midway, paramVars
  <2>3. UNCHANGED Store!vars
    BY <2>1, <2>2 DEF Store!vars, paramVars
  <2>4. QED
    BY <2>3
<1>4. QED
  BY <1>1, <1>2, <1>3

\* An atomic request takes effect all at once, with its answer, or not at all,
\* whatever a callback refuses half way; an ordinary one does what it says.
THEOREM StoreImplemented == Spec => StoreSpec
<1>1. Init => Store!Init
  <2> SUFFICES ASSUME ParamInit PROVE Store!Init
    BY DEF Init
  <2>1. ~ Midway /\ Asked = << >>
    BY DEF ParamInit, Midway, Asked
  <2>2. QED
    BY <2>1 DEF ParamInit, Store!Init
<1>2. ParamInv /\ [Next]_vars => [Store!Next]_(Store!vars)
  BY ServeMaps, OutsideMaps DEF Next
<1>3. QED
  BY <1>1, <1>2, ParametersSound, PTL DEF Spec, StoreSpec, Store!Spec

-----------------------------------------------------------------------------
(* Arithmetic of the motor efforts.                                        *)

LEMMA Divides ==
  ASSUME NEW d \in Nat \ {0}, NEW a \in Int
  PROVE  a \div d \in Int /\ \E r \in 0..(d - 1) : a = d * (a \div d) + r
OBVIOUS

LEMMA ProductMonotone ==
  ASSUME NEW d \in Nat, NEW x \in Int, NEW y \in Int, x <= y
  PROVE  d * x \in Int /\ d * y \in Int /\ d * x <= d * y
OBVIOUS

\* Division is monotone, and takes multiples apart.
LEMMA QuotientAtLeast ==
  ASSUME NEW d \in Nat \ {0}, NEW a \in Int, NEW q \in Int, d * q <= a
  PROVE  q <= a \div d
<1>1. PICK r \in 0..(d - 1) : a = d * (a \div d) + r
  BY Divides
<1> DEFINE p == a \div d
<1>2. p \in Int
  BY Divides
<1> HIDE DEF p
<1>3. CASE p + 1 <= q
  <2>1. d * (p + 1) <= d * q /\ d * q \in Int
    BY <1>2, <1>3, ProductMonotone
  <2>2. d * (p + 1) = d * p + d /\ d * p \in Int
    BY <1>2
  <2>3. QED
    BY <1>1, <2>1, <2>2 DEF p
<1>4. QED
  BY <1>2, <1>3 DEF p

LEMMA QuotientMonotone ==
  ASSUME NEW d \in Nat \ {0}, NEW a \in Int, NEW b \in Int, a <= b
  PROVE  a \div d <= b \div d
<1>1. PICK r \in 0..(d - 1) : a = d * (a \div d) + r
  BY Divides
<1>2. a \div d \in Int /\ d * (a \div d) \in Int
  BY Divides
<1>3. d * (a \div d) <= b
  BY <1>1, <1>2
<1>4. QED
  BY <1>2, <1>3, QuotientAtLeast

LEMMA QuotientOfMultiple ==
  ASSUME NEW d \in Nat \ {0}, NEW q \in Int
  PROVE  (d * q) \div d = q
<1>1. d * q \in Int /\ q <= (d * q) \div d
  BY QuotientAtLeast
<1>2. PICK r \in 0..(d - 1) : d * q = d * ((d * q) \div d) + r
  BY <1>1, Divides
<1> DEFINE p == (d * q) \div d
<1>3. p \in Int
  BY <1>1, Divides
<1> HIDE DEF p
<1>4. CASE q + 1 <= p
  <2>1. d * (q + 1) <= d * p /\ d * p \in Int
    BY <1>3, <1>4, ProductMonotone
  <2>2. d * (q + 1) = d * q + d
    OBVIOUS
  <2>3. QED
    BY <1>1, <1>2, <2>1, <2>2 DEF p
<1>5. QED
  BY <1>1, <1>3, <1>4 DEF p

\* Part is odd, monotone, and no larger than the share it takes.
LEMMA PartTyped ==
  ASSUME NEW d \in Nat \ {0}, NEW x \in Int
  PROVE  Part(x, d) \in Int /\ (x >= 0 => Part(x, d) >= 0) /\ (x <= 0 => Part(x, d) <= 0)
<1>1. 0 \div d = 0
  <2>1. d * 0 = 0
    OBVIOUS
  <2>2. QED
    BY <2>1, QuotientOfMultiple
<1>2. x \div d \in Int /\ (- x) \div d \in Int
  BY Divides
<1>3. x >= 0 => x \div d >= 0
  BY <1>1, <1>2, QuotientMonotone
<1>4. x <= 0 => (- x) \div d >= 0
  BY <1>1, <1>2, QuotientMonotone
<1>5. QED
  BY <1>1, <1>2, <1>3, <1>4 DEF Part

LEMMA PartOdd ==
  ASSUME NEW d \in Nat \ {0}, NEW x \in Int
  PROVE  Part(- x, d) = - Part(x, d)
<1>1. 0 \div d = 0
  <2>1. d * 0 = 0
    OBVIOUS
  <2>2. QED
    BY <2>1, QuotientOfMultiple
<1>2. x \div d \in Int /\ (- x) \div d \in Int /\ - (- x) = x
  BY Divides
<1>3. CASE x = 0
  BY <1>1, <1>3 DEF Part
<1>4. CASE x < 0
  BY <1>2, <1>4 DEF Part
<1>5. CASE x > 0
  BY <1>2, <1>5 DEF Part
<1>6. QED
  BY <1>3, <1>4, <1>5

LEMMA PartMonotone ==
  ASSUME NEW d \in Nat \ {0}, NEW x \in Int, NEW y \in Int, x <= y
  PROVE  Part(x, d) <= Part(y, d)
<1>1. x \div d \in Int /\ y \div d \in Int /\ (- x) \div d \in Int /\ (- y) \div d \in Int
  BY Divides
<1>2. CASE x >= 0
  <2>1. x \div d <= y \div d
    BY QuotientMonotone
  <2>2. QED
    BY <1>2, <2>1 DEF Part
<1>3. CASE x < 0 /\ y >= 0
  <2>1. Part(x, d) <= 0 /\ Part(y, d) >= 0 /\ Part(x, d) \in Int /\ Part(y, d) \in Int
    BY <1>3, PartTyped
  <2>2. QED
    BY <2>1
<1>4. CASE y < 0
  <2>1. - y <= - x /\ - x \in Int /\ - y \in Int
    OBVIOUS
  <2>2. (- y) \div d <= (- x) \div d
    BY <2>1, QuotientMonotone
  <2>3. QED
    BY <1>1, <1>4, <2>2 DEF Part
<1>5. QED
  BY <1>2, <1>3, <1>4

LEMMA PartBounded ==
  ASSUME NEW m \in 0..100, NEW s \in Nat \ {0}, NEW x \in Int, - s <= x, x <= s
  PROVE  m * x \in Int /\ Part(m * x, s) \in (- m)..m
<1>1. /\ m * (- s) \in Int /\ m * x \in Int /\ m * s \in Int
      /\ m * (- s) <= m * x /\ m * x <= m * s
  BY ProductMonotone
<1>2. m * s = s * m /\ m * (- s) = - (m * s) /\ m * s >= 0
  <2>1. m * 0 <= m * s /\ m * 0 = 0
    BY ProductMonotone
  <2>2. QED
    BY <2>1
<1>3. Part(m * s, s) = m
  <2>1. (s * m) \div s = m
    BY QuotientOfMultiple
  <2>2. QED
    BY <1>2, <2>1 DEF Part
<1>4. Part(m * (- s), s) = - m
  BY <1>1, <1>2, <1>3, PartOdd
<1>5. Part(m * (- s), s) <= Part(m * x, s) /\ Part(m * x, s) <= Part(m * s, s)
  BY <1>1, PartMonotone
<1>6. Part(m * x, s) \in Int
  BY <1>1, PartTyped
<1>7. QED
  BY <1>1, <1>3, <1>4, <1>5, <1>6

\* Tracks whose speeds do not add up to a forward speed get efforts that do
\* not either.
LEMMA NoForward ==
  ASSUME NEW m \in 0..100, NEW s \in Nat \ {0}, NEW x \in Int, NEW y \in Int, x + y <= 0
  PROVE  Part(m * x, s) + Part(m * y, s) <= 0
<1>1. y <= - x /\ - x \in Int
  OBVIOUS
<1>2. m * x \in Int /\ m * y \in Int /\ m * (- x) \in Int /\ m * y <= m * (- x)
  BY <1>1, ProductMonotone
<1>3. m * (- x) = - (m * x)
  OBVIOUS
<1>4. Part(m * y, s) <= - Part(m * x, s)
  BY <1>2, <1>3, PartMonotone, PartOdd
<1>5. Part(m * x, s) \in Int /\ Part(m * y, s) \in Int
  BY <1>2, PartTyped
<1>6. QED
  BY <1>4, <1>5

-----------------------------------------------------------------------------
(* The robot.                                                              *)

InTime == age <= Timeout + (IF ran THEN 0 ELSE 1)

\* A robot that moves is wandering or has a fresh command, also when the
\* request being served is rolled back.
BotInv ==
  /\ drive \in [left : Int, right : Int]
  /\ target \in [linear : Int, turn : Int]
  /\ age \in Nat /\ ran \in BOOLEAN /\ clear \in BOOLEAN
  /\ auto \in {"drive", "back", "turn"} /\ until \in Nat
  /\ ForwardVeto
  /\ Moving => autonomous \/ InTime
  /\ Moving => snapshot["autonomous"].data = 1 \/ InTime

LEMMA HaltTyped == Halt \in [left : Int, right : Int] /\ Halt.left = 0 /\ Halt.right = 0
BY DEF Halt

LEMMA Names3 == /\ "max_speed" \in Names /\ "autonomous" \in Names /\ "stop_distance" \in Names
                /\ Declared["max_speed"].min = 0 /\ Declared["max_speed"].max = 100
                /\ Unlimited # 0 /\ Unlimited # 100
                /\ Timeout \in Nat /\ BackTime \in Nat /\ TurnTime \in Nat /\ MaxAge \in Nat
                /\ MaxAge > Timeout + 1
BY BotAssumption, ParameterAssumption

LEMMA CeilingTyped == ParamInv => max_speed \in 0..100
<1> SUFFICES ASSUME ParamInv PROVE max_speed \in 0..100
  OBVIOUS
<1>1. params["max_speed"] \in Values /\ Admissible("max_speed", params["max_speed"])
  BY Names3 DEF ParamInv, ParamsValid
<1>2. QED
  BY <1>1, Names3 DEF max_speed, Values, Admissible

LEMMA DistanceTyped == ParamInv => stop_distance \in Int
<1> SUFFICES ASSUME ParamInv PROVE stop_distance \in Int
  OBVIOUS
<1>1. params["stop_distance"] \in Values
  BY Names3 DEF ParamInv
<1>2. QED
  BY <1>1 DEF stop_distance, Values

\* Drive.set does not change efforts within the ceiling.
LEMMA SetExact ==
  ASSUME NEW m \in 0..100, NEW x \in (- m)..m, NEW y \in (- m)..m, Set(x, y)
  PROVE  /\ drive' \in [left : Int, right : Int]
         /\ drive'.left = x /\ drive'.right = y
<1>1. Bound(x, -100, 100) = x /\ Bound(y, -100, 100) = y
  BY DEF Bound
<1>2. QED
  BY <1>1 DEF Set

\* What a control step gives the tracks: no more than the ceiling, and no
\* net forward effort when the way is not clear.
Efforts(reading) ==
  /\ drive' \in [left : Int, right : Int]
  /\ drive'.left \in (- max_speed)..max_speed /\ drive'.right \in (- max_speed)..max_speed
  /\ drive'.left + drive'.right > 0 => reading >= stop_distance

LEMMA HaltEfforts ==
  ASSUME ParamInv, NEW reading \in Readings, drive' = Halt
  PROVE  Efforts(reading)
BY HaltTyped, CeilingTyped DEF Efforts

LEMMA ApplyEfforts ==
  ASSUME ParamInv, BotInv, NEW reading \in Readings, Apply(reading)
  PROVE  Efforts(reading)
<1> DEFINE linear == IF Vetoed(reading) THEN 0 ELSE target.linear
           left == linear - target.turn
           right == linear + target.turn
           scale == Scale(left, right)
           m == max_speed
<1>1. linear \in Int /\ target.turn \in Int /\ m \in 0..100
  BY CeilingTyped DEF BotInv
<1>2. stop_distance \in Int /\ reading \in Int
  BY DistanceTyped, BotAssumption
<1>3. ~ (reading >= stop_distance) => linear <= 0
  BY <1>2 DEF Vetoed, BotInv
<1>4. Set(Part(m * left, scale), Part(m * right, scale))
  BY DEF Apply
<1> HIDE DEF linear, m
<1>5. left \in Int /\ right \in Int /\ left + right = linear + linear
  BY <1>1
<1> HIDE DEF left, right
<1>6. /\ scale \in Nat \ {0}
      /\ - scale <= left /\ left <= scale /\ - scale <= right /\ right <= scale
  BY <1>5 DEF Scale, Larger, Abs
<1> HIDE DEF scale
<1>7. Part(m * left, scale) \in (- m)..m /\ Part(m * right, scale) \in (- m)..m
  BY <1>1, <1>5, <1>6, PartBounded
<1>8. ASSUME linear <= 0 PROVE Part(m * left, scale) + Part(m * right, scale) <= 0
  <2>1. left + right <= 0
    BY <1>1, <1>5, <1>8
  <2>2. QED
    BY <1>1, <1>5, <1>6, <2>1, NoForward
<1>9. /\ drive' \in [left : Int, right : Int]
      /\ drive'.left = Part(m * left, scale) /\ drive'.right = Part(m * right, scale)
  BY <1>1, <1>4, <1>7, SetExact
<1>10. drive'.left + drive'.right > 0 => reading >= stop_distance
  BY <1>1, <1>3, <1>7, <1>8, <1>9
<1>11. QED
  BY <1>7, <1>9, <1>10 DEF Efforts, m

\* Seven tenths of the ceiling, either way.
LEMMA Tenths ==
  ASSUME NEW m \in 0..100
  PROVE  /\ Part(7 * m, 10) \in 0..m
         /\ Part(-7 * m, 10) = - Part(7 * m, 10)
BY DEF Part

LEMMA WanderEfforts ==
  ASSUME ParamInv, BotInv, NEW reading \in Readings, Wander(reading)
  PROVE  /\ Efforts(reading)
         /\ auto' \in {"drive", "back", "turn"} /\ until' \in Nat
<1> DEFINE m == max_speed
           t == Part(7 * m, 10)
<1>1. m \in 0..100
  BY CeilingTyped
<1>2. t \in 0..m /\ Part(-7 * m, 10) = - t
  BY <1>1, Tenths
<1>3. /\ m \in (- m)..m /\ t \in (- m)..m /\ - t \in (- m)..m
  BY <1>1, <1>2
<1>4. auto' \in {"drive", "back", "turn"} /\ until' \in Nat
  BY Names3 DEF Wander, BotInv
<1> HIDE DEF t
<1>5. \/ drive' = Halt
      \/ Set(m, m) /\ reading >= stop_distance
      \/ Set(- t, - t)
      \/ Set(t, - t)
  BY <1>2 DEF Wander, t
<1> HIDE DEF m
<1>6. CASE drive' = Halt
  BY <1>4, <1>6, HaltEfforts
<1>7. CASE Set(m, m) /\ reading >= stop_distance
  BY <1>1, <1>3, <1>4, <1>7, SetExact DEF Efforts, m
<1>8. CASE Set(- t, - t)
  <2>1. /\ drive' \in [left : Int, right : Int]
        /\ drive'.left = - t /\ drive'.right = - t
    BY <1>1, <1>3, <1>8, SetExact
  <2>2. ~ (drive'.left + drive'.right > 0)
    BY <1>1, <1>2, <2>1
  <2>3. QED
    BY <1>3, <1>4, <2>1, <2>2 DEF Efforts, m
<1>9. CASE Set(t, - t)
  <2>1. /\ drive' \in [left : Int, right : Int]
        /\ drive'.left = t /\ drive'.right = - t
    BY <1>1, <1>3, <1>9, SetExact
  <2>2. ~ (drive'.left + drive'.right > 0)
    BY <1>1, <1>2, <2>1
  <2>3. QED
    BY <1>3, <1>4, <2>1, <2>2 DEF Efforts, m
<1>10. QED
  BY <1>5, <1>6, <1>7, <1>8, <1>9

\* A control step, whichever way the robot is driven.
LEMMA ControlEfforts ==
  ASSUME ParamInv, BotInv, ControlStep
  PROVE  /\ \E reading \in Readings : Efforts(reading) /\ clear' = (reading >= stop_distance)
         /\ drive' # Halt => autonomous \/ age <= Timeout
         /\ auto' \in {"drive", "back", "turn"} /\ until' \in Nat
<1>1. PICK reading \in Readings :
        /\ IF autonomous THEN Wander(reading) ELSE Teleop(reading)
        /\ clear' = (reading >= stop_distance)
  BY DEF ControlStep
<1>2. CASE autonomous
  BY <1>1, <1>2, WanderEfforts
<1>3. CASE ~ autonomous
  <2>1. UNCHANGED <<auto, until>>
    BY <1>1, <1>3 DEF Teleop
  <2>2. CASE age > Timeout
    <3>1. drive' = Halt
      BY <1>1, <1>3, <2>2 DEF Teleop
    <3>2. QED
      BY <1>1, <2>1, <3>1, HaltEfforts DEF BotInv
  <2>3. CASE ~ (age > Timeout)
    <3>1. Apply(reading) /\ age <= Timeout
      BY <1>1, <1>3, <2>3, Names3 DEF Teleop, BotInv
    <3>2. QED
      BY <1>1, <2>1, <3>1, ApplyEfforts DEF BotInv
  <2>4. QED
    BY <2>2, <2>3
<1>4. QED
  BY <1>2, <1>3

\* Only a setting that reaches the callback can change autonomous, and one
\* that turns it off has stopped the motors by then.
LEMMA SettingStops ==
  ASSUME ParamInv, NEW s, s.value \in Values, NEW accepts, Callback(s)
  PROVE  \/ drive' = Halt
         \/ /\ drive' = drive
            /\ \/ Stored(s, accepts)["autonomous"] = params["autonomous"]
               \/ Stored(s, accepts)["autonomous"].data = 1
<1> DEFINE v == Promoted(s.name, s.value)
<1>1. Succeeds(s, accepts) => s.name \in Names /\ Validates(s.name, s.value)
  BY DEF Succeeds
<1>2. /\ Succeeds(s, accepts) =>
           /\ Stored(s, accepts)[s.name] = v
           /\ \A n \in Names \ {s.name} : Stored(s, accepts)[n] = params[n]
      /\ ~ Succeeds(s, accepts) => Stored(s, accepts) = params
  BY StoredKeeps DEF ParamInv
<1>3. CASE Calls(s) /\ v.data # 1
  BY <1>3 DEF Callback, OnAutonomous
<1>4. CASE Calls(s) /\ v.data = 1
  <2>1. drive' = drive
    BY <1>4 DEF Callback, OnAutonomous
  <2>2. CASE Succeeds(s, accepts) /\ s.name = "autonomous"
    BY <1>2, <1>4, <2>1, <2>2
  <2>3. CASE Succeeds(s, accepts) /\ s.name # "autonomous"
    BY <1>2, <2>1, <2>3, Names3
  <2>4. CASE ~ Succeeds(s, accepts)
    BY <1>2, <2>1, <2>4
  <2>5. QED
    BY <2>2, <2>3, <2>4
<1>5. CASE ~ Calls(s)
  <2>1. drive' = drive
    BY <1>5 DEF Callback
  <2>2. Succeeds(s, accepts) => s.name # "autonomous"
    BY <1>1, <1>5, BotAssumption DEF Calls
  <2>3. QED
    BY <1>2, <2>1, <2>2, Names3
<1>6. QED
  BY <1>3, <1>4, <1>5

LEMMA CallbackTyped ==
  ASSUME BotInv, NEW s, Callback(s)
  PROVE  /\ UNCHANGED <<target, age, until, ran, clear>>
         /\ auto' \in {"drive", "back", "turn"}
         /\ drive' = drive \/ drive' = Halt
BY DEF BotInv, Callback, OnAutonomous

\* Steps that leave the motors alone, or stop them.
LEMMA NoNewMotion ==
  ASSUME BotInv, drive' = Halt \/ drive' = drive,
         UNCHANGED <<target, age, until, ran, clear>>,
         auto' \in {"drive", "back", "turn"},
         drive' = drive /\ Moving =>
           /\ params'["autonomous"].data = 1 \/ InTime
           /\ snapshot'["autonomous"].data = 1 \/ InTime
  PROVE  BotInv'
<1>1. (InTime)' <=> InTime
  BY DEF InTime
<1>2. CASE drive' = Halt
  <2>1. ~ (Moving)' /\ (ForwardVeto)'
    BY <1>2, HaltTyped DEF Moving, ForwardVeto, Halt
  <2>2. QED
    BY <1>2, <2>1, HaltTyped DEF BotInv
<1>3. CASE drive' = drive
  <2>1. (ForwardVeto)' /\ ((Moving)' <=> Moving)
    BY <1>3 DEF BotInv, ForwardVeto, Moving, Halt
  <2>2. QED
    BY <1>1, <1>3, <2>1 DEF BotInv, autonomous
<1>4. QED
  BY <1>2, <1>3

LEMMA ServeStep == ParamInv /\ BotInv /\ Serve => BotInv'
<1> SUFFICES ASSUME ParamInv, BotInv, Serve PROVE BotInv'
  OBVIOUS
<1>1. /\ Moving => params["autonomous"].data = 1 \/ InTime
      /\ Moving => snapshot["autonomous"].data = 1 \/ InTime
      /\ auto \in {"drive", "back", "turn"}
  BY DEF BotInv, autonomous
<1>2. CASE \E settings \in Requests, atomically \in BOOLEAN :
             Request(settings, atomically) /\ UNCHANGED botVars
  <2>1. snapshot' = params /\ params' = params /\ UNCHANGED botVars
    BY <1>2 DEF Request
  <2>2. QED
    BY <1>1, <2>1, NoNewMotion DEF botVars
<1>3. CASE (Answer \/ Return) /\ UNCHANGED botVars
  <2>1. params' = params /\ snapshot' \in {params, snapshot} /\ UNCHANGED botVars
    BY <1>3 DEF Answer, Return
  <2>2. QED
    BY <1>1, <2>1, NoNewMotion DEF botVars
<1>4. CASE \E accepts \in BOOLEAN : /\ SetEach(accepts) \/ SetAtomically(accepts)
                                   /\ Callback(request[done + 1])
  <2>1. PICK accepts \in BOOLEAN : /\ SetEach(accepts) \/ SetAtomically(accepts)
                                  /\ Callback(request[done + 1])
    BY <1>4
  <2>2. /\ done < Len(request) /\ snapshot' = snapshot
        /\ params' = Stored(request[done + 1], accepts) \/ params' = snapshot
    BY <2>1 DEF SetEach, SetAtomically, Restored
  <2>3. request[done + 1].value \in Values
    BY <2>2, NextSetting
  <2>4. \/ drive' = Halt
        \/ /\ drive' = drive
           /\ \/ Stored(request[done + 1], accepts)["autonomous"] = params["autonomous"]
              \/ Stored(request[done + 1], accepts)["autonomous"].data = 1
    BY <2>1, <2>3, SettingStops
  <2>5. /\ UNCHANGED <<target, age, until, ran, clear>>
        /\ auto' \in {"drive", "back", "turn"}
    BY <2>1, CallbackTyped
  <2>6. CASE drive' = Halt /\ drive' # drive
    BY <2>5, <2>6, NoNewMotion
  <2>7. CASE drive' = drive
    <3>1. Moving => \/ params'["autonomous"] = params["autonomous"]
                    \/ params'["autonomous"].data = 1
                    \/ params' = snapshot
      BY <2>2, <2>4, <2>7 DEF Moving
    <3>2. Moving => params'["autonomous"].data = 1 \/ InTime
      BY <1>1, <3>1
    <3>3. QED
      BY <1>1, <2>2, <2>5, <2>7, <3>2, NoNewMotion
  <2>8. QED
    BY <2>4, <2>6, <2>7
<1>5. QED
  BY <1>2, <1>3, <1>4 DEF Serve

LEMMA ServiceStep == ParamInv /\ BotInv /\ OnAutonomousSrv => BotInv'
<1> SUFFICES ASSUME ParamInv, BotInv, OnAutonomousSrv PROVE BotInv'
  OBVIOUS
<1>1. PICK value \in 0..1 : \E accepts \in BOOLEAN :
        LET s == [name |-> "autonomous", value |-> [type |-> "BOOL", data |-> value]]
        IN  SetLocally(s, accepts) /\ Callback(s)
  BY DEF OnAutonomousSrv
<1> DEFINE s == [name |-> "autonomous", value |-> [type |-> "BOOL", data |-> value]]
<1>2. PICK accepts \in BOOLEAN : SetLocally(s, accepts) /\ Callback(s)
  BY <1>1
<1>3. s.value \in Values
  BY ServiceTyped
<1> HIDE DEF s
<1>4. params' = Stored(s, accepts) /\ snapshot' = params'
  BY <1>2 DEF SetLocally
<1>5. \/ drive' = Halt
      \/ /\ drive' = drive
         /\ \/ params'["autonomous"] = params["autonomous"]
            \/ params'["autonomous"].data = 1
  BY <1>2, <1>3, <1>4, SettingStops
<1>6. /\ UNCHANGED <<target, age, until, ran, clear>>
      /\ auto' \in {"drive", "back", "turn"}
  BY <1>2, CallbackTyped
<1>7. Moving => params["autonomous"].data = 1 \/ InTime
  BY DEF BotInv, autonomous
<1>8. drive' = drive /\ Moving => params'["autonomous"].data = 1 \/ InTime
  BY <1>5, <1>7 DEF Moving
<1>9. QED
  BY <1>4, <1>5, <1>6, <1>8, NoNewMotion
LEMMA BotInitKeeps == Init => BotInv
<1> SUFFICES ASSUME Init PROVE BotInv
  OBVIOUS
<1>1. drive = Halt /\ ~ Moving /\ age = MaxAge /\ auto = "drive" /\ until = 0
      /\ ran = FALSE /\ clear = TRUE /\ target \in [linear : Int, turn : Int]
  BY DEF Init, BotInit, Moving
<1>2. ForwardVeto
  BY <1>1 DEF ForwardVeto
<1>3. QED
  BY <1>1, <1>2, HaltTyped, Names3 DEF BotInv

LEMMA CommandStep == BotInv /\ OnCmdVel => BotInv'
<1> SUFFICES ASSUME BotInv, OnCmdVel PROVE BotInv'
  OBVIOUS
<1>1. /\ target' \in [linear : Int, turn : Int]
      /\ age' = 0 /\ UNCHANGED <<drive, auto, until, ran, clear>>
  BY BotAssumption DEF OnCmdVel
<1>2. (InTime)'
  BY <1>1, Names3 DEF InTime, BotInv
<1>3. (ForwardVeto)'
  BY <1>1 DEF ForwardVeto, BotInv
<1>4. QED
  BY <1>1, <1>2, <1>3 DEF BotInv

LEMMA ControlKeeps == ParamInv /\ BotInv /\ ControlStep => BotInv'
<1> SUFFICES ASSUME ParamInv, BotInv, ControlStep PROVE BotInv'
  OBVIOUS
<1>1. /\ serving = "no" /\ params = snapshot /\ UNCHANGED <<params, snapshot>>
      /\ ran' = TRUE /\ UNCHANGED <<target, age>>
  BY DEF ControlStep, paramVars, ParamInv
<1>2. PICK reading \in Readings : Efforts(reading) /\ clear' = (reading >= stop_distance)
  BY ControlEfforts
<1>3. /\ drive' # Halt => autonomous \/ age <= Timeout
      /\ auto' \in {"drive", "back", "turn"} /\ until' \in Nat
  BY ControlEfforts
<1>4. (Moving)' => (autonomous)' \/ (InTime)'
  BY <1>1, <1>3, Names3 DEF Moving, Halt, autonomous, InTime, BotInv
<1>5. (Moving)' => snapshot'["autonomous"].data = 1 \/ (InTime)'
  BY <1>1, <1>4 DEF autonomous
<1>6. (ForwardVeto)' /\ drive' \in [left : Int, right : Int] /\ clear' \in BOOLEAN
  <2>1. drive'.left + drive'.right > 0 => reading >= stop_distance
    BY <1>2 DEF Efforts
  <2>2. clear' = TRUE \/ clear' = FALSE
    <3>1. clear' = (reading >= stop_distance)
      BY <1>2
    <3>2. (reading >= stop_distance) \in BOOLEAN
      OBVIOUS
    <3>3. QED
      BY <3>1, <3>2
  <2>3. reading >= stop_distance => clear'
    BY <1>2, Zenon
  <2>4. (ForwardVeto)'
    BY <2>1, <2>3, Zenon DEF ForwardVeto
  <2>5. QED
    BY <1>2, <2>2, <2>4 DEF Efforts
<1>7. QED
  BY <1>1, <1>3, <1>4, <1>5, <1>6 DEF BotInv

LEMMA TickKeeps == BotInv /\ Tick => BotInv'
<1> SUFFICES ASSUME BotInv, Tick PROVE BotInv'
  OBVIOUS
<1>1. /\ ran /\ ran' = FALSE /\ age' \in Nat /\ age' <= age + 1 /\ until' \in Nat
      /\ UNCHANGED <<params, snapshot, drive, target, auto, clear>>
  BY DEF Tick, paramVars, BotInv
<1>2. InTime => (InTime)'
  BY <1>1, Names3 DEF InTime, BotInv
<1>3. (ForwardVeto)' /\ ((Moving)' <=> Moving) /\ ((autonomous)' <=> autonomous)
  BY <1>1 DEF ForwardVeto, Moving, Halt, autonomous, BotInv
<1>4. QED
  BY <1>1, <1>2, <1>3 DEF BotInv

LEMMA RebuildStep == Rebuild => BotInv'
<1> SUFFICES ASSUME Rebuild PROVE BotInv'
  OBVIOUS
<1>1. /\ drive' = Halt /\ target' \in [linear : Int, turn : Int] /\ age' = MaxAge
      /\ auto' = "drive" /\ until' = 0 /\ ran' = FALSE /\ clear' = TRUE
  BY DEF Rebuild
<1>2. ~ (Moving)' /\ (ForwardVeto)'
  BY <1>1 DEF Moving, Halt, ForwardVeto
<1>3. QED
  BY <1>1, <1>2, HaltTyped, Names3 DEF BotInv

LEMMA BotStep == ParamInv /\ BotInv /\ [Next]_vars => BotInv'
<1> SUFFICES ASSUME ParamInv, BotInv, [Next]_vars PROVE BotInv'
  OBVIOUS
<1>1. CASE OnCmdVel
  BY <1>1, CommandStep
<1>2. CASE Serve
  BY <1>2, ServeStep
<1>3. CASE OnAutonomousSrv
  BY <1>3, ServiceStep
<1>4. CASE ControlStep
  BY <1>4, ControlKeeps
<1>5. CASE Tick
  BY <1>5, TickKeeps
<1>6. CASE Rebuild
  BY <1>6, RebuildStep
<1>7. CASE UNCHANGED vars
  BY <1>7 DEF vars, paramVars, botVars, BotInv, ForwardVeto, Moving, Halt, autonomous, InTime
<1>8. QED
  BY <1>1, <1>2, <1>3, <1>4, <1>5, <1>6, <1>7 DEF Next

LEMMA BotSound == Spec => [](ParamInv /\ BotInv)
<1>1. Init => ParamInv
  BY ParamInitKeeps DEF Init
<1>2. QED
  BY <1>1, ParamStep, BotInitKeeps, BotStep, PTL DEF Spec

\* The robot makes way forwards only when the control step that set its motors
\* read a clear way, for every speed, turn, reading, stop distance and ceiling.
THEOREM WallsRespected == Spec => []ForwardVeto
<1>1. BotInv => ForwardVeto
  BY DEF BotInv
<1>2. QED
  BY <1>1, BotSound, PTL

\* A robot that is not wandering stops when its commands do, also when a
\* request to its parameters is refused by a callback or rolled back.
THEOREM SilenceStops == Spec => []StoppedUnlessCommanded
<1>1. BotInv => StoppedUnlessCommanded
  BY Names3 DEF BotInv, StoppedUnlessCommanded, InTime
<1>2. QED
  BY <1>1, BotSound, PTL

\* No control step gives a track more than the ceiling, for every mix of
\* speed and turn: the scaling divides the larger part out.
THEOREM CeilingHeld == Spec => EffortCeiling
<1>1. ASSUME ParamInv, BotInv, ControlStep PROVE WithinCeiling
  <2>1. max_speed \in 0..100
    BY <1>1, CeilingTyped
  <2>2. PICK reading \in Readings : Efforts(reading)
    BY <1>1, ControlEfforts
  <2>3. QED
    BY <2>1, <2>2 DEF Efforts, WithinCeiling, Abs
<1>2. ParamInv /\ BotInv /\ [Next]_vars => [ControlStep => WithinCeiling]_vars
  BY <1>1
<1>3. QED
  BY <1>2, BotSound, PTL DEF Spec, EffortCeiling
=============================================================================
