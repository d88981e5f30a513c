----------------------------- MODULE Parameters -----------------------------
(***************************************************************************)
(* A node's parameter server (parameters.py).  A request to                *)
(* set_parameters or set_parameters_atomically is a list of settings,      *)
(* applied one at a time: each is validated, stored, shown to the          *)
(* parameter's callback, and taken back when the callback refuses it.      *)
(* An atomic request stops at the first refusal and puts every parameter   *)
(* back.                                                                   *)
(*                                                                         *)
(* A value is a type and a number (a BOOL's is 0 or 1; strings and arrays  *)
(* are only ever refused, for their type).  NaN is not among them: it      *)
(* passes both comparisons of a range check.                               *)
(***************************************************************************)
EXTENDS Integers, Sequences

CONSTANTS
  Names,         \* the declared parameters
  Declared,      \* of each its descriptor: type, default, min, max, read_only, callback
  Unlimited,     \* a min or max of None
  Settings,      \* what a request may ask for: [name, value]
  MaxSettings    \* bound: settings in a request

Types == {"NOT_SET", "BOOL", "INTEGER", "DOUBLE", "STRING", "DOUBLE_ARRAY"}
Values == [type : Types, data : Int]

ASSUME ParameterAssumption ==
  /\ Declared \in [Names -> [type : Types, default : Int, min : Int \union {Unlimited},
                             max : Int \union {Unlimited}, read_only : BOOLEAN,
                             callback : BOOLEAN]]
  /\ \A n \in Names : /\ Declared[n].min # Unlimited => Declared[n].default >= Declared[n].min
                      /\ Declared[n].max # Unlimited => Declared[n].default <= Declared[n].max
  /\ \A s \in Settings : s.value \in Values
  /\ Unlimited \notin Int /\ MaxSettings \in Nat

VARIABLES
  params,      \* the value of each parameter
  request,     \* the settings being applied, or just answered
  atomic,      \* whether by set_parameters_atomically
  done,        \* how many of them were tried
  results,     \* of each tried setting, whether it succeeded
  snapshot,    \* the parameters as the request found them
  serving      \* "no", "setting" or "reply"
paramVars == <<params, request, atomic, done, results, snapshot, serving>>

Default(n) == [type |-> Declared[n].type, data |-> Declared[n].default]

\* declare.
ParamInit ==
  /\ params = [n \in Names |-> Default(n)] /\ snapshot = params
  /\ request = <<>> /\ atomic = FALSE /\ done = 0 /\ results = <<>> /\ serving = "no"

\* An INTEGER does for a DOUBLE, as ros2 param set sends one.
Promoted(n, value) ==
  IF Declared[n].type = "DOUBLE" /\ value.type = "INTEGER"
  THEN [type |-> "DOUBLE", data |-> value.data] ELSE value

\* Mutant: the range is checked before the type is known to fit.
Validates_AnyType(n, value) ==
  LET d == Declared[n]
  IN  /\ ~ d.read_only
      /\ d.min # Unlimited => value.data >= d.min
      /\ d.max # Unlimited => value.data <= d.max

\* _Param.validate.
Validates(n, value) ==
  LET d == Declared[n]
  IN  /\ ~ d.read_only
      /\ Promoted(n, value).type = d.type
      /\ d.min # Unlimited => value.data >= d.min
      /\ d.max # Unlimited => value.data <= d.max

\* Whether setting s gets as far as a callback.
Calls(s) == s.name \in Names /\ Validates(s.name, s.value) /\ Declared[s.name].callback

\* Mutant: a value its callback refused stays.
Stored_Kept(s, accepts) ==
  IF s.name \in Names /\ Validates(s.name, s.value)
  THEN [params EXCEPT ![s.name] = Promoted(s.name, s.value)]
  ELSE params

\* set: the parameters after setting s, when its callback answers accepts.
Succeeds(s, accepts) ==
  s.name \in Names /\ Validates(s.name, s.value) /\ (Declared[s.name].callback => accepts)
Stored(s, accepts) ==
  IF Succeeds(s, accepts) THEN [params EXCEPT ![s.name] = Promoted(s.name, s.value)]
  ELSE params

\* _set, _set_atomically: a request arrives.
Request(settings, atomically) ==
  /\ serving = "no" /\ serving' = "setting"
  /\ request' = settings /\ atomic' = atomically
  /\ done' = 0 /\ results' = <<>> /\ snapshot' = params
  /\ UNCHANGED params

\* One setting of an ordinary request.
SetEach(accepts) ==
  /\ serving = "setting" /\ ~ atomic /\ done < Len(request)
  /\ params' = Stored(request[done + 1], accepts)
  /\ results' = Append(results, Succeeds(request[done + 1], accepts))
  /\ done' = done + 1
  /\ UNCHANGED <<request, atomic, snapshot, serving>>

\* Mutant: the refused setting alone is undone.
Restored_Last == params

Restored == snapshot

\* One setting of an atomic request, the last when it is refused.
SetAtomically(accepts) ==
  /\ serving = "setting" /\ atomic /\ done < Len(request)
  /\ done' = done + 1
  /\ IF Succeeds(request[done + 1], accepts)
     THEN /\ params' = Stored(request[done + 1], accepts)
          /\ results' = Append(results, TRUE) /\ UNCHANGED serving
     ELSE /\ params' = Restored
          /\ results' = Append(results, FALSE) /\ serving' = "reply"
  /\ UNCHANGED <<request, atomic, snapshot>>

\* Every setting was tried.
Answer ==
  /\ serving = "setting" /\ done = Len(request)
  /\ serving' = "reply"
  /\ UNCHANGED <<params, request, atomic, done, results, snapshot>>

\* The handler returns.
Return ==
  /\ serving = "reply" /\ serving' = "no"
  /\ request' = <<>> /\ done' = 0 /\ results' = <<>> /\ atomic' = FALSE
  /\ snapshot' = params
  /\ UNCHANGED params

\* set_parameter: the node sets one of its own.
SetLocally(s, accepts) ==
  /\ serving = "no"
  /\ params' = Stored(s, accepts) /\ snapshot' = params'
  /\ UNCHANGED <<request, atomic, done, results, serving>>

Requests == UNION {[1..n -> Settings] : n \in 0..MaxSettings}
ParamNext ==
  \/ \E settings \in Requests, atomically \in BOOLEAN : Request(settings, atomically)
  \/ \E accepts \in BOOLEAN : SetEach(accepts) \/ SetAtomically(accepts)
  \/ Answer \/ Return
  \/ \E s \in Settings, accepts \in BOOLEAN : SetLocally(s, accepts)
ParamSpec == ParamInit /\ [][ParamNext]_paramVars
-----------------------------------------------------------------------------
(***************************************************************************)
(* Properties.                                                             *)
(***************************************************************************)
\* No sequence of requests, refusals, callbacks that refuse and roll-backs
\* leaves a parameter with a value of another type, out of its range, or, when
\* it is read-only, with any value but its default.
Admissible(n, value) ==
  LET d == Declared[n]
  IN  /\ value.type = d.type
      /\ d.min # Unlimited => value.data >= d.min
      /\ d.max # Unlimited => value.data <= d.max
      /\ d.read_only => value = Default(n)
ParamsValid == \A n \in Names : Admissible(n, params[n])

\* What a reply reports as set, is set, and nothing else is: each parameter has
\* the last value the request is said to have given it, and the value it had
\* before when there is none.  A refused atomic request reports nothing as set
\* ("Apply every parameter or none of them").
Applied == IF atomic /\ \E i \in DOMAIN results : ~ results[i] THEN {}
           ELSE {i \in DOMAIN results : results[i]}
Naming(n) == {i \in Applied : request[i].name = n}
Told ==
  \A n \in Names :
    \/ Naming(n) = {} /\ params[n] = snapshot[n]
    \/ \E i \in Naming(n) : /\ \A j \in Naming(n) : j <= i
                            /\ params[n] = Promoted(n, request[i].value)
RepliesTrue == serving = "reply" => Told

\* Whoever looks between requests sees an atomic request take effect at once,
\* or not at all, and any request do what its answer says.
Asked == [i \in DOMAIN request |->
            [name |-> request[i].name,
             value |-> IF request[i].name \in Names
                       THEN Promoted(request[i].name, request[i].value)
                       ELSE request[i].value]]
Midway == atomic /\ serving = "setting"
Store == INSTANCE ParameterStore WITH
           Initial <- [n \in Names |-> Default(n)],
           store <- IF Midway THEN snapshot ELSE params,
           told <- IF Midway THEN <<>> ELSE results,
           asked <- Asked, phase <- serving
StoreSpec == Store!Spec

\* Why: the parameters follow the results setting by setting, what an atomic
\* request puts back was admissible, and it goes on only while nothing failed.
ParamInv ==
  /\ params \in [Names -> Values] /\ snapshot \in [Names -> Values]
  /\ request \in Seq(Settings) /\ atomic \in BOOLEAN
  /\ done \in 0..Len(request)
  /\ results \in Seq(BOOLEAN) /\ Len(results) = done
  /\ serving \in {"no", "setting", "reply"}
  /\ ParamsValid /\ \A n \in Names : Admissible(n, snapshot[n])
  /\ Told
  /\ atomic /\ serving = "setting" => \A i \in 1..done : results[i]
  /\ serving = "no" => params = snapshot /\ done = 0 /\ results = <<>>
=============================================================================
