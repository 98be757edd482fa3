-------------------------- MODULE TpmKeyringProofs --------------------------
(***************************************************************************)
(* TpmKeyring, for any number of callers, keys and indices.                *)
(***************************************************************************)
EXTENDS TpmKeyring, TLAPS

\* What a step of a caller does: its own call goes on or is answered, and its
\* own index changes.
StepEffect(c) ==
  /\ at[c] # "idle" /\ faulty' = faulty
  /\ \A d \in Callers \ {c} : at'[d] = at[d] /\ call'[d] = call[d]
  /\ \A s \in Slots \ {Slot(c)} : nv'[s] = nv[s]
  /\ \/ /\ call'[c] = call[c] /\ at'[c] \in Commands /\ call[c].op \in Ops(at'[c])
        /\ \/ nv'[Slot(c)] = nv[Slot(c)]
           \/ Asks(c, "set") /\ nv'[Slot(c)] \in {Undefined, Unwritten}
     \/ /\ at'[c] = "idle"
        /\ \E a \in Contract!Answers :
             /\ a # "pending"
             /\ call' = [call EXCEPT ![c].answer = a]
             /\ call'[c] = [call[c] EXCEPT !.answer = a]
             /\ \/ a = "failed" /\ nv' = nv
                \/ Asks(c, "get") /\ nv' = nv /\ a = Stored[call[c].key]
                \/ Asks(c, "delete") /\ a = "ok" /\ nv'[Slot(c)] = Undefined
                \/ Asks(c, "set") /\ a = "ok" /\ nv'[Slot(c)] = call[c].secret
  /\ nv'[Slot(c)] = Unwritten /\ nv[Slot(c)] # Unwritten => at'[c] = "write"
  /\ at[c] = "write" => faulty \/ nv'[Slot(c)] # Unwritten

LEMMA Steps ==
  ASSUME TpmInv, NEW c \in Callers,
         Lookup(c) \/ Read(c) \/ Define(c) \/ Undefine(c) \/ Redefine(c) \/ Write(c) \/ Fails(c)
  PROVE  TypeOK' /\ StepEffect(c)
<1>0. at[c] # "idle"
  BY DEF Lookup, Read, Define, Undefine, Redefine, Write, Fails
<1>1. /\ call[c] \in Contract!Calls /\ call[c].key \in Keys /\ Slot(c) \in Slots
      /\ call[c].op \in Ops(at[c])
      /\ call[c].answer = "pending" /\ call[c].op \in {"get", "set", "delete"}
  BY <1>0, TpmAssumption DEF TpmInv, TypeOK, Contract!Pending, Contract!Calls, Slot, IndexFor
<1>2. call[c].op = "set" => call[c].secret \in Secrets
  BY <1>1 DEF Contract!Calls
<1>3. Stored[call[c].key] = IF nv[Slot(c)] \in Secrets THEN nv[Slot(c)] ELSE NoSecret
  BY <1>1 DEF Stored, Slot
<1>4. TypeOK
  BY DEF TpmInv
<1>5. ASSUME NEW command \in Commands, Goto(c, command)
      PROVE  /\ at' \in [Callers -> Commands \cup {"idle"}]
             /\ call' \in [Callers -> Contract!Calls \cup {NoCall}]
             /\ at'[c] = command /\ call'[c] = call[c] /\ faulty' = faulty
             /\ \A d \in Callers \ {c} : at'[d] = at[d] /\ call'[d] = call[d]
  BY <1>5, <1>4 DEF Goto, TypeOK
<1>6. ASSUME NEW a \in Contract!Answers, Return(c, a)
      PROVE  /\ at' \in [Callers -> Commands \cup {"idle"}]
             /\ call' \in [Callers -> Contract!Calls \cup {NoCall}]
             /\ at'[c] = "idle" /\ call'[c] = [call[c] EXCEPT !.answer = a] /\ faulty' = faulty
             /\ \A d \in Callers \ {c} : at'[d] = at[d] /\ call'[d] = call[d]
  <2>1. [call[c] EXCEPT !.answer = a] \in Contract!Calls
    BY <1>1 DEF Contract!Calls
  <2> QED BY <1>6, <1>4, <2>1 DEF Return, TypeOK
<1>7. ASSUME NEW v \in Secrets \cup {Undefined, Unwritten}, Content(c, v)
      PROVE  /\ nv' \in [Slots -> Secrets \cup {Undefined, Unwritten}]
             /\ nv'[Slot(c)] = v
             /\ \A s \in Slots \ {Slot(c)} : nv'[s] = nv[s]
  BY <1>1, <1>4, <1>7 DEF Content, TypeOK
<1>8. /\ {"ok", "failed", NoSecret} \cup Secrets \subseteq Contract!Answers
      /\ "pending" \notin {"ok", "failed", NoSecret} \cup Secrets
  BY TpmAssumption DEF Contract!Answers
<1>9. CASE NotFound(c) /\ at[c] \in {"lookup", "read", "undefine", "write"}
  <2>1. PICK a \in {NoSecret, "ok", "failed"} :
          /\ Return(c, a)
          /\ \/ Asks(c, "get") /\ a = NoSecret
             \/ Asks(c, "delete") /\ a = "ok"
             \/ Asks(c, "set") /\ a = "failed"
    BY <1>1, <1>9 DEF NotFound, Asks
  <2>2. nv' = nv /\ nv[Slot(c)] = Undefined
    BY <1>9 DEF NotFound
  <2>3. TypeOK'
    BY <2>1, <2>2, <1>4, <1>6, <1>8 DEF TypeOK
  <2> QED BY <2>1, <2>2, <2>3, <1>0, <1>3, <1>6, <1>8, TpmAssumption DEF StepEffect, Return
<1>10. CASE Lookup(c) /\ ~NotFound(c)
  <2>1. PICK command \in {"read", "undefine"} :
          Goto(c, command) /\ call[c].op \in Ops(command) /\ at[c] = "lookup"
    BY <1>1, <1>10 DEF Lookup, Asks, Ops
  <2>2. nv' = nv
    BY <1>10 DEF Lookup
  <2> QED BY <2>1, <2>2, <1>0, <1>4, <1>5 DEF StepEffect, TypeOK, Commands
<1>11. CASE Read(c) /\ ~NotFound(c)
  <2>1. /\ nv[Slot(c)] \in Secrets \cup {Unwritten} /\ nv' = nv /\ Asks(c, "get")
        /\ at[c] = "read"
        /\ Return(c, IF nv[Slot(c)] = Unwritten THEN "failed" ELSE nv[Slot(c)])
    BY <1>1, <1>4, <1>11 DEF Read, TypeOK, Ops, Asks
  <2>2. PICK a \in Secrets \cup {"failed"} : Return(c, a) /\ (a = "failed" \/ a = Stored[call[c].key])
    BY <2>1, <1>3
  <2>3. TypeOK'
    BY <2>1, <2>2, <1>4, <1>6, <1>8 DEF TypeOK
  <2> QED BY <2>1, <2>2, <2>3, <1>0, <1>6, <1>8 DEF StepEffect, Return
<1>12. CASE Define(c) \/ Redefine(c)
  <2>1. Asks(c, "set") /\ at[c] \in {"define", "redefine"}
    BY <1>1, <1>12 DEF Define, Redefine, Ops, Asks
  <2>2. CASE nv[Slot(c)] = Undefined /\ Content(c, Unwritten) /\ Goto(c, "write")
    BY <2>1, <2>2, <1>0, <1>4, <1>5, <1>7 DEF StepEffect, TypeOK, Commands, Ops, Asks
  <2>3. CASE UNCHANGED nv /\ Goto(c, "lookup")
    BY <2>1, <2>3, <1>0, <1>4, <1>5 DEF StepEffect, TypeOK, Commands, Ops, Asks
  <2>4. CASE UNCHANGED nv /\ Return(c, "failed")
    <3>1. TypeOK'
      BY <2>4, <1>4, <1>6, <1>8 DEF TypeOK
    <3> QED BY <2>1, <2>4, <3>1, <1>0, <1>6, <1>8 DEF StepEffect, Return
  <2> QED BY <2>2, <2>3, <2>4, <1>12 DEF Define, Redefine
<1>13. CASE Undefine(c) /\ ~NotFound(c)
  <2>1. at[c] = "undefine" /\ Content(c, Undefined) /\ (Asks(c, "set") \/ Asks(c, "delete"))
    BY <1>1, <1>13 DEF Undefine, Ops, Asks
  <2>2. CASE Asks(c, "set") /\ Goto(c, "redefine")
    BY <2>1, <2>2, <1>0, <1>4, <1>5, <1>7, TpmAssumption DEF StepEffect, TypeOK, Commands, Ops, Asks
  <2>3. CASE Asks(c, "delete") /\ Return(c, "ok")
    <3>1. TypeOK'
      BY <2>1, <2>3, <1>4, <1>6, <1>7, <1>8 DEF TypeOK
    <3> QED BY <2>1, <2>3, <3>1, <1>0, <1>6, <1>7, <1>8, TpmAssumption DEF StepEffect, Return
  <2> QED BY <2>1, <2>2, <2>3, <1>13 DEF Undefine, Asks
<1>14. CASE Write(c) /\ ~NotFound(c)
  <2>1. at[c] = "write" /\ Asks(c, "set") /\ Content(c, call[c].secret) /\ Return(c, "ok")
        /\ call[c].secret \in Secrets
    BY <1>1, <1>2, <1>14 DEF Write, Ops, Asks
  <2>2. TypeOK'
    BY <2>1, <1>4, <1>6, <1>7, <1>8 DEF TypeOK
  <2> QED BY <2>1, <2>2, <1>0, <1>6, <1>7, <1>8, TpmAssumption DEF StepEffect, Return
<1>15. CASE Fails(c)
  <2>1. nv' = nv /\ Return(c, "failed") /\ (at[c] = "write" => faulty)
    BY <1>15 DEF Fails
  <2>2. TypeOK'
    BY <2>1, <1>4, <1>6, <1>8 DEF TypeOK
  <2> QED BY <2>1, <2>2, <1>0, <1>6, <1>8 DEF StepEffect, Return
<1> QED
  BY <1>9, <1>10, <1>11, <1>12, <1>13, <1>14, <1>15 DEF Lookup, Read, Undefine, Write

LEMMA CallStep ==
  ASSUME TpmInv, NEW c \in Callers, NEW request \in Contract!Calls, Call(c, request)
  PROVE  /\ TypeOK' /\ nv' = nv /\ faulty' = faulty
         /\ at[c] = "idle" /\ at'[c] \in {"define", "lookup"} /\ request.op \in Ops(at'[c])
         /\ call' = [call EXCEPT ![c] = request] /\ call'[c] = request /\ request.answer = "pending"
         /\ \A d \in Callers \ {c} : at'[d] = at[d] /\ call'[d] = call[d]
<1>1. request.op \in {"get", "set", "delete"}
  BY DEF Contract!Calls
<1> QED BY <1>1 DEF Call, TpmInv, TypeOK, Commands, Ops

LEMMA InvStep == TpmInv /\ [Next]_vars => TpmInv'
<1> SUFFICES ASSUME TpmInv, [Next]_vars PROVE TpmInv'
  OBVIOUS
<1>0. NoCall \notin Contract!Calls
  BY TpmAssumption DEF Contract!Calls, Contract!Answers
<1>1. ASSUME NEW c \in Callers, NEW request \in Contract!Calls, Call(c, request) PROVE TpmInv'
  <2>1. /\ TypeOK' /\ call'[c] = request /\ request.answer = "pending" /\ request # NoCall
        /\ at'[c] \in {"define", "lookup"} /\ request.op \in Ops(at'[c])
        /\ \A d \in Callers \ {c} : at'[d] = at[d] /\ call'[d] = call[d]
    BY <1>0, <1>1, CallStep
  <2>2. call'[c].op \in Ops(at'[c]) /\ Contract!Pending(c)' /\ at'[c] # "idle"
    BY <2>1 DEF Contract!Pending
  <2>3. \A d \in Callers \ {c} : Contract!Pending(d)' <=> Contract!Pending(d)
    BY <2>1 DEF Contract!Pending
  <2> QED BY <2>1, <2>2, <2>3 DEF TpmInv
<1>2. ASSUME NEW c \in Callers,
             Lookup(c) \/ Read(c) \/ Define(c) \/ Undefine(c) \/ Redefine(c) \/ Write(c) \/ Fails(c)
      PROVE  TpmInv'
  <2>1. TypeOK' /\ StepEffect(c)
    BY <1>2, Steps
  <2>2. call[c] # NoCall /\ call[c].answer = "pending"
    BY <2>1 DEF StepEffect, TpmInv, Contract!Pending
  <2>3. CASE call'[c] = call[c] /\ at'[c] \in Commands /\ call[c].op \in Ops(at'[c])
    BY <2>1, <2>2, <2>3 DEF StepEffect, TpmInv, Contract!Pending, Commands
  <2>4. ASSUME NEW a \in Contract!Answers, at'[c] = "idle", a # "pending",
               call'[c] = [call[c] EXCEPT !.answer = a]
        PROVE  TpmInv'
    <3>1. call'[c].answer = a
      BY <2>2, <2>4, <2>1, <1>0 DEF TpmInv, TypeOK, Contract!Calls
    <3>2. ~Contract!Pending(c)'
      BY <2>4, <3>1 DEF Contract!Pending
    <3>3. \A d \in Callers \ {c} :
            (Contract!Pending(d)' <=> Contract!Pending(d)) /\ call'[d] = call[d] /\ at'[d] = at[d]
      BY <2>1 DEF StepEffect, Contract!Pending
    <3> QED BY <2>1, <2>4, <3>2, <3>3 DEF TpmInv
  <2> QED BY <2>1, <2>3, <2>4 DEF StepEffect
<1>3. CASE UNCHANGED vars
  BY <1>3 DEF vars, TpmInv, TypeOK, Contract!Pending
<1> QED BY <1>1, <1>2, <1>3 DEF Next

\* A caller runs only commands of its own pending call, and every value has
\* its type, under every fault and however keys share indices.
THEOREM Inductive == Spec => []TpmInv
<1>1. Init => TpmInv
  BY DEF Init, TpmInv, TypeOK, Contract!Pending
<1> QED BY <1>1, InvStep, PTL DEF Spec

\* The type invariant.
THEOREM TypeCorrect == Spec => []TypeOK
<1>1. TpmInv => TypeOK
  BY DEF TpmInv
<1> QED BY <1>1, Inductive, PTL

-----------------------------------------------------------------------------
\* Where no command fails, an index that is defined and not written is about
\* to be written by a caller, although keys may share it.
THEOREM Transient == Spec => []UnwrittenIsTransient
<1>1. Init => UnwrittenIsTransient
  BY TpmAssumption DEF Init, UnwrittenIsTransient
<1>2. TpmInv /\ UnwrittenIsTransient /\ [Next]_vars => UnwrittenIsTransient'
  <2> SUFFICES ASSUME TpmInv, UnwrittenIsTransient, [Next]_vars,
                      ~faulty', NEW s \in Slots, nv'[s] = Unwritten
               PROVE  \E c \in Callers : at'[c] = "write" /\ Slot(c)' = s
    BY DEF UnwrittenIsTransient
  <2>0. ~faulty
    BY CallStep, Steps DEF Next, StepEffect, vars
  <2>1. ASSUME NEW c \in Callers, NEW request \in Contract!Calls, Call(c, request)
        PROVE  \E d \in Callers : at'[d] = "write" /\ Slot(d)' = s
    BY <2>0, <2>1, CallStep DEF UnwrittenIsTransient, Slot, IndexFor
  <2>2. ASSUME NEW c \in Callers,
               Lookup(c) \/ Read(c) \/ Define(c) \/ Undefine(c) \/ Redefine(c) \/ Write(c) \/ Fails(c)
        PROVE  \E d \in Callers : at'[d] = "write" /\ Slot(d)' = s
    <3>1. StepEffect(c)
      BY <2>2, Steps
    <3>2. CASE nv[s] = Unwritten
      <4>1. PICK d \in Callers : at[d] = "write" /\ Slot(d) = s
        BY <2>0, <3>2 DEF UnwrittenIsTransient
      <4>2. d # c
        BY <2>0, <3>1, <4>1 DEF StepEffect
      <4> QED BY <3>1, <4>1, <4>2 DEF StepEffect, Slot, IndexFor
    <3>3. CASE nv[s] # Unwritten
      <4>1. s = Slot(c) /\ at'[c] = "write"
        BY <3>1, <3>3 DEF StepEffect
      <4>2. call'[c] = call[c]
        BY <3>1, <4>1 DEF StepEffect
      <4> QED BY <4>1, <4>2 DEF Slot, IndexFor
    <3> QED BY <3>2, <3>3
  <2>3. CASE UNCHANGED vars
    BY <2>0, <2>3 DEF vars, UnwrittenIsTransient, Slot, IndexFor
  <2> QED BY <2>1, <2>2, <2>3 DEF Next
<1> QED BY <1>1, <1>2, Inductive, PTL DEF Spec

-----------------------------------------------------------------------------
\* However the hash shares the indices among the keys, TPMKeyring is a keyring
\* whose keys have them for homes: the step that undefines an index loses the
\* secret of its keys, the step that writes it puts one, and every other command
\* changes nothing a caller can see.
THEOREM Refinement == Spec => ImplementsKeyring
<1>1. Init => Contract!KeyringInit
  BY TpmAssumption DEF Init, Contract!KeyringInit, Stored, IndexFor
<1>2. TpmInv /\ TpmInv' /\ [Next]_vars => [Contract!KeyringNext]_(Contract!keyringVars)
  <2> SUFFICES ASSUME TpmInv, TpmInv', [Next]_vars
               PROVE  Contract!KeyringNext \/ UNCHANGED Contract!keyringVars
    OBVIOUS
  <2>1. ASSUME NEW c \in Callers, NEW request \in Contract!Calls, Call(c, request)
        PROVE  Contract!KeyringNext
    <3>1. Stored' = Stored /\ ~Contract!Pending(c)
      BY <2>1, CallStep DEF Stored, TpmInv, IndexFor
    <3> QED BY <2>1, <3>1, CallStep DEF Contract!KeyringNext, Contract!Begin
  <2>2. ASSUME NEW c \in Callers,
               Lookup(c) \/ Read(c) \/ Define(c) \/ Undefine(c) \/ Redefine(c) \/ Write(c) \/ Fails(c)
        PROVE  Contract!KeyringNext \/ UNCHANGED Contract!keyringVars
    <3> DEFINE k == call[c].key
    <3>1. StepEffect(c)
      BY <2>2, Steps
    <3>2. Contract!Pending(c) /\ k \in Keys /\ Slot(c) = IndexFor(k)
      BY <3>1 DEF StepEffect, TpmInv, TypeOK, Contract!Pending, Contract!Calls, Slot
    <3>3. /\ SlotOf[k] = Slot(c)
          /\ \A l \in Keys : SlotOf[l] # SlotOf[k] => SlotOf[l] \in Slots \ {Slot(c)}
      BY <3>2, TpmAssumption DEF IndexFor
    <3>4. \A l \in Keys : SlotOf[l] # SlotOf[k] => Stored'[l] = Stored[l]
      BY <3>1, <3>3 DEF StepEffect, Stored, IndexFor
    <3>5. \A l \in Keys : SlotOf[l] = SlotOf[k] =>
            Stored'[l] = IF nv'[Slot(c)] \in Secrets THEN nv'[Slot(c)] ELSE NoSecret
      BY <3>3 DEF Stored, IndexFor
    <3>6. ASSUME NEW v, \A l \in Keys : SlotOf[l] = SlotOf[k] => Stored'[l] = v
          PROVE  Contract!Keep(k, v)
      BY <3>4, <3>6 DEF Stored, Contract!Keep
    <3>7. Unwritten \notin Secrets /\ Undefined \notin Secrets
      BY TpmAssumption
    <3>8. nv' = nv => Stored' = Stored
      BY DEF Stored, IndexFor
    <3>9. CASE /\ call'[c] = call[c]
               /\ \/ nv'[Slot(c)] = nv[Slot(c)]
                  \/ Asks(c, "set") /\ nv'[Slot(c)] \in {Undefined, Unwritten}
      <4>1. call' = call
        BY <3>1, <3>9 DEF StepEffect, TpmInv, TypeOK
      <4>2. CASE nv'[Slot(c)] = nv[Slot(c)]
        <5>1. \A l \in Keys : SlotOf[l] = SlotOf[k] => Stored'[l] = Stored[l]
          BY <3>3, <4>2 DEF Stored, IndexFor
        <5>2. Stored' = Stored
          BY <3>4, <5>1 DEF Stored
        <5> QED BY <4>1, <5>2 DEF Contract!keyringVars
      <4>3. CASE Asks(c, "set") /\ nv'[Slot(c)] \in {Undefined, Unwritten}
        <5>1. Contract!Keep(k, NoSecret)
          BY <3>5, <3>6, <3>7, <4>3
        <5> QED BY <3>2, <4>1, <4>3, <5>1 DEF Contract!KeyringNext, Contract!Lose, Contract!Asks, Asks
      <4> QED BY <3>9, <4>2, <4>3
    <3>10. ASSUME NEW a \in Contract!Answers,
                  call' = [call EXCEPT ![c].answer = a],
                  \/ a = "failed" /\ nv' = nv
                  \/ Asks(c, "get") /\ nv' = nv /\ a = Stored[k]
                  \/ Asks(c, "delete") /\ a = "ok" /\ nv'[Slot(c)] = Undefined
                  \/ Asks(c, "set") /\ a = "ok" /\ nv'[Slot(c)] = call[c].secret
           PROVE  Contract!KeyringNext
      <4>0. Contract!Answer(c, a)
        BY <3>10 DEF Contract!Answer
      <4>1. CASE a = "failed" /\ nv' = nv
        BY <3>2, <3>8, <4>0, <4>1 DEF Contract!KeyringNext, Contract!Fail
      <4>2. CASE Asks(c, "get") /\ nv' = nv /\ a = Stored[k]
        BY <3>2, <3>8, <4>0, <4>2 DEF Contract!KeyringNext, Contract!Get, Contract!Asks, Asks
      <4>3. CASE Asks(c, "delete") /\ a = "ok" /\ nv'[Slot(c)] = Undefined
        <5>1. Contract!Keep(k, NoSecret)
          BY <3>5, <3>6, <3>7, <4>3
        <5> QED BY <3>2, <4>0, <4>3, <5>1 DEF Contract!KeyringNext, Contract!Delete, Contract!Asks, Asks
      <4>4. CASE Asks(c, "set") /\ a = "ok" /\ nv'[Slot(c)] = call[c].secret
        <5>1. call[c].secret \in Secrets
          BY <3>2, <4>4 DEF TpmInv, TypeOK, Contract!Pending, Contract!Calls, Asks
        <5>2. Contract!Keep(k, call[c].secret)
          BY <3>5, <3>6, <4>4, <5>1
        <5> QED BY <3>2, <4>0, <4>4, <5>2 DEF Contract!KeyringNext, Contract!Put, Contract!Asks, Asks
      <4> QED BY <3>10, <4>1, <4>2, <4>3, <4>4
    <3> QED BY <3>1, <3>9, <3>10 DEF StepEffect
  <2>3. CASE UNCHANGED vars
    BY <2>3 DEF vars, Contract!keyringVars, Stored, IndexFor
  <2> QED BY <2>1, <2>2, <2>3 DEF Next
<1> QED BY <1>1, <1>2, Inductive, PTL DEF Spec, ImplementsKeyring, Contract!KeyringSpec
=============================================================================
