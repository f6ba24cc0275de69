----------------------- MODULE ResponseRegistryProofs -----------------------
(***************************************************************************)
(* Theorems about ResponseRegistry, for any number of requests and         *)
(* branches, any timeouts and any requests whose Send panics.              *)
(***************************************************************************)
EXTENDS ResponseRegistry, TLAPS

Taken == slots \cup expired \cup victims

(* The state of one slot: what the once, the channel and the counter say of *)
(* each other, and who may be at work on it.                                *)
SlotOK(r) ==
    /\ writes[r] = (IF writer[r] = Nobody THEN 0 ELSE 1)
                    + (IF handler[r] = "panicked" THEN 1 ELSE 0)
    /\ once[r] = "open" <=> writer[r] \in {Nobody, "handler"}
    /\ closed[r] <=> once[r] = "done"
    /\ writer[r] = "handler" => handler[r] = "returned" /\ r \notin Taken
    /\ handler[r] = "returned" => writer[r] = "handler" \/ once[r] = "done"
    /\ handler[r] \in {"new", "read"} => writer[r] = Nobody /\ r \notin Taken
    /\ handler[r] \notin {"new", "read"} => writer[r] # Nobody \/ r \in Taken
    /\ r \in slots => r \notin expired \cup victims
    /\ r \in slots => writer[r] \in Branch \cup {Nobody}

(* The call of branch b that answers r.                                     *)
ReplyOK(r, b) ==
    /\ reply[r][b] \in {"found", "delete", "ok", "ErrAlreadyCompleted"}
         => handler[r] \notin {"new", "read"} /\ writer[r] # "handler"
    /\ writer[r] = b /\ once[r] = "busy" => reply[r][b] = "found"
    /\ writer[r] = b /\ once[r] = "done" => reply[r][b] \in {"delete", "ok"}
    /\ reply[r][b] \in {"delete", "ok"} => writer[r] = b /\ once[r] = "done"
    /\ reply[r][b] = "ErrAlreadyCompleted" => writer[r] \notin {b, Nobody}
    /\ reply[r][b] = "ErrUnknownHandle" => writer[r] # Nobody \/ r \in expired \cup victims
    /\ reply[r][b] = "ok" => r \notin slots
    /\ handler[r] \in {"new", "read"} => reply[r][b] = "idle"

IInv ==
    /\ TypeOK
    /\ engine # "draining" => victims = {}
    /\ sweeper # "busy" => expired = {}
    /\ sweeper = "off" <=> engine = "down"
    /\ \A r \in Req : SlotOK(r)
    /\ \A r \in Req, b \in Branch : ReplyOK(r, b)
-----------------------------------------------------------------------------
LEMMA InitInv == Init => IInv
  <1> SUFFICES ASSUME Init PROVE IInv
    OBVIOUS
  <1>1. TypeOK
    BY DEF Init, TypeOK
  <1>2. \A r \in Req : SlotOK(r)
    BY RegistryAssumption DEF Init, SlotOK, Taken
  <1>3. \A r \in Req, b \in Branch : ReplyOK(r, b)
    BY RegistryAssumption DEF Init, ReplyOK
  <1> QED
    BY <1>1, <1>2, <1>3 DEF Init, IInv

(* A request that a step leaves alone, and whose slot does not change hands *)
(* in that step.                                                            *)
LEMMA Untouched ==
    ASSUME NEW r \in Req, SlotOK(r), \A b \in Branch : ReplyOK(r, b),
           UNCHANGED <<once[r], writer[r], writes[r], closed[r], handler[r], reply[r]>>,
           r \in slots' <=> r \in slots,
           r \in expired' \cup victims' <=> r \in expired \cup victims
    PROVE  SlotOK(r)' /\ \A b \in Branch : ReplyOK(r, b)'
  <1>1. r \in Taken' <=> r \in Taken
    BY DEF Taken
  <1>2. SlotOK(r)'
    BY <1>1 DEF SlotOK
  <1>3. \A b \in Branch : ReplyOK(r, b)'
    BY DEF ReplyOK
  <1> QED
    BY <1>2, <1>3

(* Steps of the http-in handler and of the clock.                           *)
LEMMA HandlerInv ==
    ASSUME IInv, NEW r \in Req, HandlerStep(r) \/ Elapse(r)
    PROVE  IInv'
  <1>1. /\ UNCHANGED <<once, closed, reply, expired, victims, engine, sweeper, job, routes>>
        /\ slots \subseteq slots'
    BY DEF HandlerStep, Accept, Reject, Register, Send, SendPanics, Return, Elapse, slotVars,
       sweepVars, engineVars
  <1>2. TypeOK'
    <2>1. CASE Accept(r) \/ Send(r) \/ Return(r) \/ Elapse(r)
      BY <2>1 DEF IInv, TypeOK, Accept, Send, Return, Elapse, slotVars, sweepVars, engineVars
    <2>4. CASE SendPanics(r)
      <3>1. writes' \in [Req -> Nat]
        BY <2>4 DEF IInv, TypeOK, SendPanics
      <3> QED
        BY <2>4, <3>1 DEF IInv, TypeOK, SendPanics, sweepVars, engineVars
    <2>2. CASE Register(r)
      BY <2>2 DEF IInv, TypeOK, Register, sweepVars, engineVars
    <2>3. CASE Reject(r)
      <3>1. writer' \in [Req -> Party \cup {Nobody}] /\ writes' \in [Req -> Nat]
        BY <2>3 DEF IInv, TypeOK, Reject, Party
      <3> QED
        BY <2>3, <3>1 DEF IInv, TypeOK, Reject, sweepVars, engineVars
    <2> QED
      BY <2>1, <2>2, <2>3, <2>4 DEF HandlerStep
  <1>3. ASSUME NEW q \in Req, q # r
        PROVE  SlotOK(q)' /\ \A b \in Branch : ReplyOK(q, b)'
    <2>1. /\ UNCHANGED <<once[q], writer[q], writes[q], closed[q], handler[q], reply[q]>>
          /\ q \in slots' <=> q \in slots
      BY <1>3 DEF IInv, TypeOK, HandlerStep, Accept, Reject, Register, Send, SendPanics,
         Return, Elapse, slotVars
    <2> QED
      BY <1>1, <2>1, Untouched DEF IInv
  <1>4. SlotOK(r) /\ \A b \in Branch : ReplyOK(r, b)
    BY DEF IInv
  <1>5. SlotOK(r)' /\ \A b \in Branch : ReplyOK(r, b)'
    <2>0. CASE SendPanics(r)
      <3>1. /\ UNCHANGED <<once, writer, closed, reply, slots, expired, victims>>
            /\ handler[r] = "send" /\ handler'[r] = "panicked"
            /\ writes'[r] = writes[r] + 1
        BY <2>0 DEF SendPanics, sweepVars, engineVars, IInv, TypeOK
      <3>2. SlotOK(r)'
        BY <1>4, <3>1 DEF SlotOK, Taken
      <3>3. \A b \in Branch : ReplyOK(r, b)'
        BY <1>4, <3>1 DEF ReplyOK
      <3> QED
        BY <3>2, <3>3
    <2>1. CASE Accept(r) \/ Send(r)
      <3>1. /\ UNCHANGED <<once, writer, writes, closed, reply, slots, expired, victims>>
            /\ handler[r] \in {"new", "send"} /\ handler'[r] \in {"read", "wait"}
            /\ handler[r] = "new" <=> handler'[r] = "read"
        BY <2>1 DEF Accept, Send, slotVars, sweepVars, engineVars, IInv, TypeOK
      <3>2. SlotOK(r)'
        BY <1>4, <3>1 DEF SlotOK, Taken
      <3>3. \A b \in Branch : ReplyOK(r, b)'
        BY <1>4, <3>1 DEF ReplyOK
      <3> QED
        BY <3>2, <3>3
    <2>2. CASE Reject(r)
      <3>1. /\ UNCHANGED <<once, closed, reply, slots, expired, victims>>
            /\ handler[r] = "read" /\ handler'[r] = "returned" /\ writer'[r] = "handler"
            /\ writes'[r] = writes[r] + 1
        BY <2>2 DEF Reject, sweepVars, engineVars, IInv, TypeOK
      <3>2. SlotOK(r)'
        BY <1>4, <3>1, RegistryAssumption DEF SlotOK, Taken
      <3>3. \A b \in Branch : ReplyOK(r, b)'
        BY <1>4, <3>1, RegistryAssumption DEF ReplyOK
      <3> QED
        BY <3>2, <3>3
    <2>3. CASE Register(r)
      <3>1. /\ UNCHANGED <<once, writer, writes, closed, reply, expired, victims>>
            /\ handler[r] = "read" /\ handler'[r] = "send" /\ slots' = slots \cup {r}
        BY <2>3 DEF Register, sweepVars, engineVars, IInv, TypeOK
      <3>2. SlotOK(r)'
        BY <1>4, <3>1, RegistryAssumption DEF SlotOK, Taken
      <3>3. \A b \in Branch : ReplyOK(r, b)'
        BY <1>4, <3>1 DEF ReplyOK
      <3> QED
        BY <3>2, <3>3
    <2>4. CASE Return(r)
      <3>1. /\ UNCHANGED <<once, writer, writes, closed, reply, slots, expired, victims>>
            /\ handler[r] = "wait" /\ handler'[r] = "returned" /\ closed[r]
        BY <2>4 DEF Return, slotVars, sweepVars, engineVars, IInv, TypeOK
      <3>2. SlotOK(r)'
        BY <1>4, <3>1 DEF SlotOK, Taken
      <3>3. \A b \in Branch : ReplyOK(r, b)'
        BY <1>4, <3>1 DEF ReplyOK
      <3> QED
        BY <3>2, <3>3
    <2>5. CASE Elapse(r)
      BY <2>5, <1>4, Untouched DEF Elapse, sweepVars, engineVars
    <2> QED
      BY <2>0, <2>1, <2>2, <2>3, <2>4, <2>5 DEF HandlerStep
  <1> QED
    BY <1>1, <1>2, <1>3, <1>5 DEF IInv

(* What a write by a leaves behind.                                         *)
LEMMA Writing ==
    ASSUME IInv, NEW r \in Req, NEW a \in Party, a # "handler",
           BeginWrite(r, a) \/ EndWrite(r, a)
    PROVE  /\ UNCHANGED <<slots, due>>
           /\ \A q \in Req : q # r => UNCHANGED <<once[q], writer[q], writes[q], closed[q]>>
           /\ \/ /\ once[r] = "open" /\ once'[r] = "busy" /\ closed'[r] = closed[r]
                 /\ writer'[r] = a /\ writes'[r] = writes[r] + 1
              \/ /\ once[r] = "busy" /\ once'[r] = "done" /\ closed'[r] = TRUE
                 /\ writer[r] = a /\ writer'[r] = a /\ writes'[r] = writes[r]
           /\ once' \in [Req -> {"open", "busy", "done"}]
           /\ writer' \in [Req -> Party \cup {Nobody}]
           /\ writes' \in [Req -> Nat]
           /\ closed' \in [Req -> BOOLEAN]
  <1>0. /\ once \in [Req -> {"open", "busy", "done"}]
        /\ writer \in [Req -> Party \cup {Nobody}]
        /\ writes \in [Req -> Nat]
        /\ closed \in [Req -> BOOLEAN]
    BY DEF IInv, TypeOK
  <1>1. CASE BeginWrite(r, a)
    BY <1>0, <1>1 DEF BeginWrite
  <1>2. CASE EndWrite(r, a)
    BY <1>0, <1>2 DEF EndWrite
  <1> QED
    BY <1>1, <1>2

(* A write keeps the invariant of the slot and of the other calls.          *)
LEMMA WriteInv ==
    ASSUME IInv, NEW r \in Req, NEW a \in Party, a # "handler",
           r \in Taken \/ once[r] = "busy",
           BeginWrite(r, a) \/ EndWrite(r, a),
           UNCHANGED handler,
           a \notin Branch => r \notin slots /\ UNCHANGED reply[r],
           \A b \in Branch : IF b = a
                             THEN /\ reply[r][b] = "found"
                                  /\ reply'[r][b] = IF once[r] = "open" THEN "found" ELSE "delete"
                             ELSE UNCHANGED reply[r][b],
           r \in expired' \cup victims' => r \in expired \cup victims,
           r \in expired \cup victims => r \in expired' \cup victims' \/ once[r] = "busy"
    PROVE  SlotOK(r)' /\ \A b \in Branch : ReplyOK(r, b)'
  <1>0. SlotOK(r) /\ \A b \in Branch : ReplyOK(r, b)
    BY DEF IInv
  <1>1. /\ UNCHANGED slots /\ a # Nobody
        /\ \/ /\ once[r] = "open" /\ once'[r] = "busy" /\ closed'[r] = closed[r]
              /\ writer'[r] = a /\ writes'[r] = writes[r] + 1
           \/ /\ once[r] = "busy" /\ once'[r] = "done" /\ closed'[r] = TRUE
              /\ writer[r] = a /\ writer'[r] = a /\ writes'[r] = writes[r]
    BY Writing, RegistryAssumption DEF Party
  <1>2. SlotOK(r)'
    BY <1>0, <1>1, RegistryAssumption DEF SlotOK, Taken, Party
  <1>3. \A b \in Branch : ReplyOK(r, b)'
    BY <1>0, <1>1, RegistryAssumption DEF ReplyOK, SlotOK, Party, Taken
  <1> QED
    BY <1>2, <1>3

(* A caller that lost the once leaves the slot alone.                       *)
LEMMA LostInv ==
    ASSUME IInv, NEW r \in Req, NEW a \in Party, LostOnce(r, a),
           UNCHANGED <<slotVars, handler>>,
           \A b \in Branch : \/ UNCHANGED reply[r][b]
                             \/ /\ b = a /\ reply[r][b] = "found"
                                /\ reply'[r][b] = "ErrAlreadyCompleted",
           r \in expired' \cup victims' => r \in expired \cup victims
    PROVE  SlotOK(r)' /\ \A b \in Branch : ReplyOK(r, b)'
  <1>0. SlotOK(r) /\ \A b \in Branch : ReplyOK(r, b)
    BY DEF IInv
  <1>1. once[r] = "done" /\ writer[r] \notin {a, Nobody, "handler"}
    BY <1>0 DEF LostOnce, SlotOK
  <1>2. SlotOK(r)'
    BY <1>0, <1>1 DEF SlotOK, Taken, slotVars
  <1>3. \A b \in Branch : ReplyOK(r, b)'
    BY <1>0, <1>1 DEF ReplyOK, slotVars
  <1> QED
    BY <1>2, <1>3

(* Steps of a branch that ends in an http-response node.                    *)
LEMMA BranchInv ==
    ASSUME IInv, NEW r \in Req, NEW b \in Branch, BranchStep(r, b)
    PROVE  IInv'
  <1>0. /\ SlotOK(r) /\ \A c \in Branch : ReplyOK(r, c)
        /\ reply \in [Req -> [Branch -> {"idle", "found", "delete", "ok", "ErrUnknownHandle",
                                          "ErrAlreadyCompleted"}]]
        /\ b \in Party /\ b # "handler"
    BY RegistryAssumption DEF IInv, TypeOK, Party
  <1>1. /\ UNCHANGED <<handler, sweeper, expired, engine, job, victims, routes>>
        /\ due' \subseteq due
        /\ \/ \E x \in {"found", "delete", "ok", "ErrUnknownHandle", "ErrAlreadyCompleted"} :
                step(r, b, x)
           \/ UNCHANGED reply
    BY DEF BranchStep, Lookup, Complete, Delete, slotVars, sweepVars, engineVars, BeginWrite,
       EndWrite
  <1>2. /\ reply' \in [Req -> [Branch -> {"idle", "found", "delete", "ok", "ErrUnknownHandle",
                                           "ErrAlreadyCompleted"}]]
        /\ \A q \in Req : q # r => reply'[q] = reply[q]
        /\ \A c \in Branch : c # b => reply'[r][c] = reply[r][c]
    BY <1>0, <1>1 DEF step
  <1>3. CASE Lookup(r, b)
    <2>1. /\ UNCHANGED <<slots, once, writer, writes, closed>>
          /\ handler[r] \notin {"new", "read"}
          /\ reply'[r][b] = IF r \in slots THEN "found" ELSE "ErrUnknownHandle"
          /\ reply[r][b] = "idle"
      BY <1>0, <1>3 DEF Lookup, step, slotVars
    <2>2. SlotOK(r)'
      BY <1>0, <1>1, <2>1 DEF SlotOK, Taken
    <2>3. \A c \in Branch : ReplyOK(r, c)'
      BY <1>0, <1>1, <1>2, <2>1, RegistryAssumption DEF ReplyOK, SlotOK, Taken
    <2>4. \A q \in Req : q # r => SlotOK(q)' /\ \A c \in Branch : ReplyOK(q, c)'
      BY <1>1, <1>2, <2>1, Untouched DEF IInv
    <2>5. TypeOK'
      BY <1>1, <1>2, <2>1 DEF IInv, TypeOK
    <2> QED
      BY <1>1, <2>2, <2>3, <2>4, <2>5 DEF IInv
  <1>4. CASE Delete(r, b)
    <2>1. /\ UNCHANGED <<once, writer, writes, closed>>
          /\ slots' = slots \ {r} /\ reply[r][b] = "delete" /\ reply'[r][b] = "ok"
      BY <1>0, <1>4 DEF Delete, step
    <2>2. SlotOK(r)'
      BY <1>0, <1>1, <2>1, RegistryAssumption DEF SlotOK, Taken, ReplyOK
    <2>3. \A c \in Branch : ReplyOK(r, c)'
      BY <1>0, <1>1, <1>2, <2>1 DEF ReplyOK
    <2>4. \A q \in Req : q # r => SlotOK(q)' /\ \A c \in Branch : ReplyOK(q, c)'
      BY <1>1, <1>2, <2>1, Untouched DEF IInv
    <2>5. TypeOK'
      BY <1>1, <1>2, <2>1 DEF IInv, TypeOK
    <2> QED
      BY <1>1, <2>2, <2>3, <2>4, <2>5 DEF IInv
  <1>5. CASE Complete(r, b) /\ LostOnce(r, b) /\ UNCHANGED slotVars
    <2>1. UNCHANGED <<slots, once, writer, writes, closed>>
      BY <1>5 DEF slotVars
    <2>2. reply[r][b] = "found" /\ reply'[r][b] = "ErrAlreadyCompleted"
      BY <1>0, <1>5 DEF Complete, LostOnce, BeginWrite, EndWrite, step
    <2>3. SlotOK(r)' /\ \A c \in Branch : ReplyOK(r, c)'
      BY <1>0, <1>1, <1>2, <1>5, <2>2, LostInv
    <2>4. \A q \in Req : q # r => SlotOK(q)' /\ \A c \in Branch : ReplyOK(q, c)'
      BY <1>1, <1>2, <2>1, Untouched DEF IInv
    <2>5. TypeOK'
      BY <1>1, <1>2, <2>1 DEF IInv, TypeOK
    <2> QED
      BY <1>1, <2>3, <2>4, <2>5 DEF IInv
  <1>6. CASE Complete(r, b) /\ (BeginWrite(r, b) \/ EndWrite(r, b))
    <2>1. /\ reply[r][b] = "found"
          /\ reply'[r][b] = IF once[r] = "open" THEN "found" ELSE "delete"
      BY <1>0, <1>6 DEF Complete, LostOnce, BeginWrite, EndWrite, step
    <2>2. /\ UNCHANGED slots
          /\ \A q \in Req : q # r => UNCHANGED <<once[q], writer[q], writes[q], closed[q]>>
          /\ once' \in [Req -> {"open", "busy", "done"}]
          /\ writer' \in [Req -> Party \cup {Nobody}]
          /\ writes' \in [Req -> Nat]
          /\ closed' \in [Req -> BOOLEAN]
      BY <1>0, <1>6, Writing
    <2>3. r \in Taken \/ once[r] = "busy"
      BY <1>0, <1>6, <2>1 DEF ReplyOK, SlotOK, BeginWrite, EndWrite
    <2>4. SlotOK(r)' /\ \A c \in Branch : ReplyOK(r, c)'
      BY <1>0, <1>1, <1>2, <1>6, <2>1, <2>3, WriteInv
    <2>5. \A q \in Req : q # r => SlotOK(q)' /\ \A c \in Branch : ReplyOK(q, c)'
      BY <1>1, <1>2, <2>2, Untouched DEF IInv
    <2>6. TypeOK'
      BY <1>1, <1>2, <2>2 DEF IInv, TypeOK
    <2> QED
      BY <1>1, <2>4, <2>5, <2>6 DEF IInv
  <1> QED
    BY <1>3, <1>4, <1>5, <1>6 DEF BranchStep, Complete

(* The sweeper or the drain, a, completes a slot it has taken.              *)
LEMMA TakenInv ==
    ASSUME IInv, NEW r \in Req, NEW a \in {"sweeper", "drain"}, r \in expired \cup victims,
           UNCHANGED <<handler, reply>>,
           \/ BeginWrite(r, a) /\ UNCHANGED <<expired, victims>>
           \/ EndWrite(r, a)
           \/ LostOnce(r, a) /\ UNCHANGED slotVars,
           expired' \subseteq expired /\ expired \subseteq expired' \cup {r},
           victims' \subseteq victims /\ victims \subseteq victims' \cup {r}
    PROVE  /\ \A q \in Req : SlotOK(q)' /\ \A b \in Branch : ReplyOK(q, b)'
           /\ UNCHANGED slots /\ due' \subseteq Timed
           /\ once' \in [Req -> {"open", "busy", "done"}]
           /\ writer' \in [Req -> Party \cup {Nobody}]
           /\ writes' \in [Req -> Nat]
           /\ closed' \in [Req -> BOOLEAN]
  <1>0. /\ SlotOK(r) /\ \A b \in Branch : ReplyOK(r, b)
        /\ a \in Party /\ a # "handler" /\ a \notin Branch
        /\ r \notin slots
    BY RegistryAssumption DEF IInv, Party, SlotOK
  <1>1. CASE LostOnce(r, a) /\ UNCHANGED slotVars
    <2>1. UNCHANGED <<slots, due, once, writer, writes, closed>>
      BY <1>1 DEF slotVars
    <2>2. SlotOK(r)' /\ \A b \in Branch : ReplyOK(r, b)'
      BY <1>0, <1>1, LostInv
    <2>3. \A q \in Req : q # r => SlotOK(q)' /\ \A b \in Branch : ReplyOK(q, b)'
      BY <2>1, Untouched DEF IInv
    <2> QED
      BY <2>1, <2>2, <2>3 DEF IInv, TypeOK
  <1>2. CASE (BeginWrite(r, a) /\ UNCHANGED <<expired, victims>>) \/ EndWrite(r, a)
    <2>1. /\ UNCHANGED <<slots, due>>
          /\ \A q \in Req : q # r => UNCHANGED <<once[q], writer[q], writes[q], closed[q]>>
          /\ once' \in [Req -> {"open", "busy", "done"}]
          /\ writer' \in [Req -> Party \cup {Nobody}]
          /\ writes' \in [Req -> Nat]
          /\ closed' \in [Req -> BOOLEAN]
      BY <1>0, <1>2, Writing
    <2>2. r \in expired \cup victims => r \in expired' \cup victims' \/ once[r] = "busy"
      BY <1>2 DEF EndWrite
    <2>3. SlotOK(r)' /\ \A b \in Branch : ReplyOK(r, b)'
      BY <1>0, <1>2, <2>2, WriteInv DEF Taken
    <2>4. \A q \in Req : q # r => SlotOK(q)' /\ \A b \in Branch : ReplyOK(q, b)'
      BY <2>1, Untouched DEF IInv
    <2> QED
      BY <2>1, <2>3, <2>4 DEF IInv, TypeOK
  <1> QED
    BY <1>1, <1>2

(* The slots T leave the map for a set that was empty before.               *)
LEMMA TakeInv ==
    ASSUME IInv, NEW T, slots' = slots \ T,
           UNCHANGED <<once, writer, writes, closed, handler, reply>>,
           expired' \cup victims' = expired \cup victims \cup (slots \cap T)
    PROVE  \A q \in Req : SlotOK(q)' /\ \A b \in Branch : ReplyOK(q, b)'
  <1> SUFFICES ASSUME NEW q \in Req PROVE SlotOK(q)' /\ \A b \in Branch : ReplyOK(q, b)'
    OBVIOUS
  <1>0. SlotOK(q) /\ \A b \in Branch : ReplyOK(q, b)
    BY DEF IInv
  <1>1. Taken' = Taken
    BY DEF Taken
  <1>2. SlotOK(q)'
    BY <1>0, <1>1 DEF SlotOK
  <1>3. \A b \in Branch : ReplyOK(q, b)'
    BY <1>0 DEF ReplyOK
  <1> QED
    BY <1>2, <1>3

LEMMA SweeperInv ==
    ASSUME IInv, SweeperStep
    PROVE  IInv'
  <1>1. CASE sweepExpired
    <2>1. /\ slots' = slots \ due /\ expired' = slots \cap due /\ expired = {}
          /\ sweeper = "idle" /\ sweeper' = "busy"
          /\ due' = {}
          /\ UNCHANGED <<once, writer, writes, closed, handler, reply, engine, job,
                         victims, routes>>
      BY <1>1 DEF sweepExpired, engineVars, IInv
    <2>2. \A q \in Req : SlotOK(q)' /\ \A b \in Branch : ReplyOK(q, b)'
      BY <2>1, TakeInv
    <2> QED
      BY <2>1, <2>2 DEF IInv, TypeOK
  <1>2. ASSUME NEW r \in Req, Timeout(r) PROVE IInv'
    <2>1. /\ UNCHANGED <<handler, reply, sweeper, engine, job, victims, routes>>
          /\ sweeper = "busy" /\ r \in expired
          /\ expired' \subseteq expired /\ expired \subseteq expired' \cup {r}
      BY <1>2 DEF Timeout, engineVars
    <2>2. \/ BeginWrite(r, "sweeper") /\ UNCHANGED <<expired, victims>>
          \/ EndWrite(r, "sweeper")
          \/ LostOnce(r, "sweeper") /\ UNCHANGED slotVars
      BY <1>2, <2>1 DEF Timeout
    <2>3. /\ \A q \in Req : SlotOK(q)' /\ \A b \in Branch : ReplyOK(q, b)'
          /\ UNCHANGED slots /\ due' \subseteq Timed
          /\ once' \in [Req -> {"open", "busy", "done"}]
          /\ writer' \in [Req -> Party \cup {Nobody}]
          /\ writes' \in [Req -> Nat]
          /\ closed' \in [Req -> BOOLEAN]
      BY <2>1, <2>2, TakenInv
    <2> QED
      BY <2>1, <2>3 DEF IInv, TypeOK
  <1>3. CASE Swept
    <2>1. /\ UNCHANGED <<slots, due, once, writer, writes, closed, handler, reply, expired, engine,
                         job, victims, routes>>
          /\ expired = {} /\ sweeper = "busy" /\ sweeper' = "idle"
      BY <1>3 DEF Swept, slotVars, engineVars
    <2>2. \A q \in Req : SlotOK(q)' /\ \A b \in Branch : ReplyOK(q, b)'
      BY <2>1, Untouched DEF IInv
    <2> QED
      BY <2>1, <2>2 DEF IInv, TypeOK
  <1> QED
    BY <1>1, <1>2, <1>3 DEF SweeperStep

LEMMA EngineInv ==
    ASSUME IInv,
           \/ EngineStep
           \/ StartEngine
           \/ \E j \in {"stop", "deploy"}, open \in BOOLEAN : Swap(j, open)
    PROVE  IInv'
  <1>1. CASE DrainAll
    <2>1. /\ slots' = slots \ slots /\ victims' = slots /\ victims = {}
          /\ engine = "swapped" /\ engine' = "draining"
          /\ due' = {}
          /\ UNCHANGED <<once, writer, writes, closed, handler, reply, sweeper, expired,
                         job, routes>>
      BY <1>1 DEF DrainAll, sweepVars, IInv
    <2>2. \A q \in Req : SlotOK(q)' /\ \A b \in Branch : ReplyOK(q, b)'
      BY <2>1, TakeInv
    <2> QED
      BY <2>1, <2>2 DEF IInv, TypeOK
  <1>2. ASSUME NEW r \in Req, Drain(r) PROVE IInv'
    <2>1. /\ UNCHANGED <<handler, reply, sweeper, expired, engine, job, routes>>
          /\ engine = "draining" /\ r \in victims
          /\ victims' \subseteq victims /\ victims \subseteq victims' \cup {r}
      BY <1>2 DEF Drain, sweepVars
    <2>2. \/ BeginWrite(r, "drain") /\ UNCHANGED <<expired, victims>>
          \/ EndWrite(r, "drain")
          \/ LostOnce(r, "drain") /\ UNCHANGED slotVars
      BY <1>2, <2>1 DEF Drain
    <2>3. /\ \A q \in Req : SlotOK(q)' /\ \A b \in Branch : ReplyOK(q, b)'
          /\ UNCHANGED slots /\ due' \subseteq Timed
          /\ once' \in [Req -> {"open", "busy", "done"}]
          /\ writer' \in [Req -> Party \cup {Nobody}]
          /\ writes' \in [Req -> Nat]
          /\ closed' \in [Req -> BOOLEAN]
      BY <2>1, <2>2, TakenInv
    <2> QED
      BY <2>1, <2>3 DEF IInv, TypeOK
  <1>3. CASE Drained \/ StartEngine \/ \E j \in {"stop", "deploy"}, open \in BOOLEAN : Swap(j, open)
    <2>1. /\ UNCHANGED <<slots, due, once, writer, writes, closed, handler, reply, expired, victims>>
          /\ victims' = {}
          /\ sweeper' = sweeper \/ (sweeper' \in {"idle", "off"} /\ expired' = {})
          /\ sweeper' \in {"off", "idle", "busy"}
          /\ engine' \in {"down", "up", "swapped"}
          /\ job' \in {"stop", "deploy"}
          /\ routes' \in BOOLEAN
          /\ sweeper' = "off" <=> engine' = "down"
      <3>1. CASE Drained
        BY <3>1 DEF Drained, slotVars, IInv, TypeOK
      <3>2. CASE StartEngine
        <4>1. sweeper = "off" => expired = {}
          BY DEF IInv
        <4> QED
          BY <3>2, <4>1 DEF StartEngine, slotVars, IInv, TypeOK
      <3>3. CASE \E j \in {"stop", "deploy"}, open \in BOOLEAN : Swap(j, open)
        BY <3>3 DEF Swap, slotVars, sweepVars, IInv, TypeOK
      <3> QED
        BY <1>3, <3>1, <3>2, <3>3
    <2>2. \A q \in Req : SlotOK(q)' /\ \A b \in Branch : ReplyOK(q, b)'
      BY <2>1, Untouched DEF IInv
    <2> QED
      BY <2>1, <2>2 DEF IInv, TypeOK
  <1> QED
    BY <1>1, <1>2, <1>3 DEF EngineStep

LEMMA NextInv == IInv /\ [Next]_vars => IInv'
  <1> SUFFICES ASSUME IInv, [Next]_vars PROVE IInv'
    OBVIOUS
  <1>1. CASE UNCHANGED vars
    <2>1. UNCHANGED <<slots, due, once, writer, writes, closed, handler, reply, sweeper, expired,
                      engine, job, victims, routes>>
      BY <1>1 DEF vars, slotVars, sweepVars, engineVars
    <2>2. \A q \in Req : SlotOK(q)' /\ \A b \in Branch : ReplyOK(q, b)'
      BY <2>1, Untouched DEF IInv
    <2> QED
      BY <2>1, <2>2 DEF IInv, TypeOK
  <1> QED
    BY <1>1, HandlerInv, BranchInv, SweeperInv, EngineInv DEF Next

LEMMA AlwaysInv == Safety => []IInv
  BY InitInv, NextInv, PTL DEF Safety
-----------------------------------------------------------------------------
(* However many branches of the flow, timeouts and drains race to answer a  *)
(* request, ResponseSlot.Complete writes one response at most; a request    *)
(* gets a second only when its handler panicked and Recoverer wrote a 500.  *)
THEOREM WritesOnce == Safety => []OneResponse
  <1>1. IInv => OneResponse
    BY DEF IInv, SlotOK, OneResponse
  <1> QED
    BY <1>1, AlwaysInv, PTL

(* No response is being written when the http-in handler has returned from  *)
(* its wait (a handler that panicked may leave such a write behind).        *)
THEOREM WriterOwned == Safety => []NoWriteAfterReturn
  <1>1. IInv => NoWriteAfterReturn
    BY DEF IInv, SlotOK, NoWriteAfterReturn
  <1> QED
    BY <1>1, AlwaysInv, PTL

(* What ResponseRegistry.Complete returns to the http-response node is what *)
(* became of the request.                                                   *)
THEOREM Truthful == Safety => []CompleteIsTruthful
  <1>1. IInv => CompleteIsTruthful
    BY DEF IInv, ReplyOK, CompleteIsTruthful
  <1> QED
    BY <1>1, AlwaysInv, PTL

(* The exchange is sound: one response, owned by the handler, truthfully    *)
(* reported, and every variable in its type; with the one exception of a    *)
(* handler that panicked, named in OneResponse and NoWriteAfterReturn.      *)
THEOREM ExchangeIsSound == Safety => []ExchangeSound
  <1>1. IInv => TypeOK
    BY DEF IInv
  <1> QED
    BY <1>1, AlwaysInv, WritesOnce, WriterOwned, Truthful, PTL DEF ExchangeSound

(* The slot of a handler that waits or panicked is in the map, or somebody  *)
(* holds it or has answered it; an answered slot leaves the map.            *)
THEOREM SlotsAccounted == Safety => []SlotsKept
  <1>1. IInv => NoLostSlot
    BY DEF IInv, SlotOK, Taken, NoLostSlot
  <1>2. IInv => NoSlotLeak
    <2> SUFFICES ASSUME IInv, NEW r \in slots, once[r] = "done"
                 PROVE  \E b \in Branch : reply[r][b] = "delete"
      BY DEF NoSlotLeak
    <2>1. r \in Req /\ SlotOK(r)
      BY DEF IInv, TypeOK
    <2>2. writer[r] \in Branch
      BY <2>1 DEF SlotOK
    <2> QED
      BY <2>1, <2>2 DEF IInv, ReplyOK
  <1> QED
    BY <1>1, <1>2, AlwaysInv, PTL DEF SlotsKept
-----------------------------------------------------------------------------
(* Refinement: the steps of the exchange are steps of OneShotResponse.      *)
absAnswer == [r \in Req |-> IF once[r] = "busy" THEN Nobody ELSE writer[r]]
absGone == {r \in Req : handler[r] = "returned"}
absFailed == {r \in Req : handler[r] = "panicked"}

LEMMA SameAnswer ==
    ASSUME UNCHANGED <<once, writer>>
    PROVE  absAnswer' = absAnswer
  BY DEF absAnswer

LEMMA SameGone ==
    ASSUME UNCHANGED handler
    PROVE  absGone' = absGone /\ absFailed' = absFailed
  BY DEF absGone, absFailed

(* A write is invisible until done is closed, and is the answer then.       *)
LEMMA WriteRefines ==
    ASSUME IInv, NEW r \in Req, NEW a \in Party, a # "handler", writer[r] # "handler",
           BeginWrite(r, a) \/ EndWrite(r, a), UNCHANGED handler
    PROVE  UNCHANGED <<absAnswer, absGone, absFailed>> \/ OneShot!Answer(r, a)
  <1>0. SlotOK(r) /\ a # Nobody
    BY RegistryAssumption DEF IInv, Party
  <1>1. /\ \A q \in Req : q # r => UNCHANGED <<once[q], writer[q]>>
        /\ \/ once[r] = "open" /\ once'[r] = "busy"
           \/ once[r] = "busy" /\ once'[r] = "done" /\ writer'[r] = a
    BY Writing
  <1>2. absGone' = absGone /\ absFailed' = absFailed
    BY SameGone
  <1>3. CASE once[r] = "open" /\ once'[r] = "busy" /\ writer[r] = Nobody
    BY <1>1, <1>2, <1>3 DEF absAnswer
  <1>4. CASE once[r] = "busy" /\ once'[r] = "done" /\ writer'[r] = a
    <2>1. r \notin absGone
      BY <1>0, <1>4, RegistryAssumption DEF SlotOK, absGone
    <2>2. absAnswer[r] = Nobody /\ absAnswer' = [absAnswer EXCEPT ![r] = a]
      BY <1>1, <1>4 DEF absAnswer
    <2> QED
      BY <1>2, <2>1, <2>2 DEF OneShot!Answer, absAnswer, absGone, absFailed
  <1> QED
    BY <1>0, <1>1, <1>3, <1>4 DEF SlotOK

(* Steps of the http-in handler and of the clock.                           *)
LEMMA HandlerRefines ==
    ASSUME IInv, NEW r \in Req, HandlerStep(r) \/ Elapse(r)
    PROVE  UNCHANGED <<absAnswer, absGone, absFailed>> \/ OneShot!Return(r) \/ OneShot!Reject(r)
           \/ OneShot!Fail(r)
  <1>0. /\ SlotOK(r)
        /\ handler \in [Req -> {"new", "read", "send", "wait", "returned", "panicked"}]
        /\ writer \in [Req -> Party \cup {Nobody}]
    BY DEF IInv, TypeOK
  <1>1. CASE Accept(r) \/ Register(r) \/ Send(r) \/ Elapse(r)
    <2>1. UNCHANGED <<once, writer>>
      BY <1>1 DEF Accept, Register, Send, Elapse, slotVars
    <2>2. absGone' = absGone /\ absFailed' = absFailed
      BY <1>0, <1>1 DEF Accept, Register, Send, Elapse, absGone, absFailed
    <2> QED
      BY <2>1, <2>2, SameAnswer
  <1>4. CASE SendPanics(r)
    <2>1. UNCHANGED <<once, writer>> /\ handler[r] = "send"
      BY <1>4 DEF SendPanics
    <2>2. /\ r \notin absGone /\ absGone' = absGone
          /\ absFailed' = absFailed \cup {r}
      BY <1>0, <1>4 DEF SendPanics, absGone, absFailed
    <2> QED
      BY <2>1, <2>2, SameAnswer DEF OneShot!Fail, absAnswer, absGone, absFailed
  <1>2. CASE Return(r)
    <2>1. UNCHANGED <<once, writer>> /\ handler[r] = "wait" /\ closed[r]
      BY <1>2 DEF Return, slotVars
    <2>2. absAnswer[r] # Nobody
      BY <1>0, <2>1, RegistryAssumption DEF SlotOK, absAnswer
    <2>3. /\ absGone' = absGone \cup {r}
          /\ r \notin absFailed /\ absFailed' = absFailed
      BY <1>0, <1>2 DEF Return, absGone, absFailed
    <2> QED
      BY <2>1, <2>2, <2>3, SameAnswer DEF OneShot!Return, absAnswer, absGone, absFailed
  <1>3. CASE Reject(r)
    <2>1. /\ UNCHANGED once /\ writer' = [writer EXCEPT ![r] = "handler"]
          /\ handler[r] = "read" /\ handler' = [handler EXCEPT ![r] = "returned"]
      BY <1>3 DEF Reject
    <2>2. once[r] = "open" /\ writer[r] = Nobody /\ "handler" \in Party
      BY <1>0, <2>1 DEF SlotOK, Party
    <2>3. absAnswer[r] = Nobody /\ absAnswer' = [absAnswer EXCEPT ![r] = "handler"]
      BY <1>0, <2>1, <2>2 DEF absAnswer
    <2>4. /\ r \notin absGone /\ absGone' = absGone \cup {r}
          /\ r \notin absFailed /\ absFailed' = absFailed
      BY <1>0, <2>1 DEF absGone, absFailed
    <2> QED
      BY <2>2, <2>3, <2>4 DEF OneShot!Reject, absAnswer, absGone, absFailed
  <1> QED
    BY <1>1, <1>2, <1>3, <1>4 DEF HandlerStep

(* Steps of the branches, the sweeper and the engine.                       *)
LEMMA AnswerRefines ==
    ASSUME IInv,
           \/ \E r \in Req, b \in Branch : BranchStep(r, b)
           \/ SweeperStep
           \/ EngineStep
           \/ StartEngine
           \/ \E j \in {"stop", "deploy"}, open \in BOOLEAN : Swap(j, open)
    PROVE  \/ UNCHANGED <<absAnswer, absGone, absFailed>>
           \/ \E r \in Req, a \in Party : OneShot!Answer(r, a)
  <1>0. absGone' = absGone /\ absFailed' = absFailed
    <2>1. UNCHANGED handler
      BY DEF BranchStep, Lookup, Complete, Delete, SweeperStep, sweepExpired, Timeout, Swept,
         EngineStep, DrainAll, Drain, Drained, StartEngine, Swap
    <2> QED
      BY <2>1, SameGone
  <1>1. UNCHANGED handler
    BY DEF BranchStep, Lookup, Complete, Delete, SweeperStep, sweepExpired, Timeout, Swept,
       EngineStep, DrainAll, Drain, Drained, StartEngine, Swap
  <1>2. \/ UNCHANGED <<once, writer>>
        \/ \E r \in Req, a \in Party :
                a # "handler" /\ writer[r] # "handler" /\ (BeginWrite(r, a) \/ EndWrite(r, a))
    <2>1. ASSUME NEW r \in Req, NEW b \in Branch, BranchStep(r, b),
                 ~ UNCHANGED <<once, writer>>
          PROVE  /\ b \in Party /\ b # "handler" /\ writer[r] # "handler"
                 /\ BeginWrite(r, b) \/ EndWrite(r, b)
      <3>1. reply[r][b] = "found" /\ (BeginWrite(r, b) \/ EndWrite(r, b))
        BY <2>1 DEF BranchStep, Lookup, Complete, Delete, slotVars
      <3>2. ReplyOK(r, b)
        BY DEF IInv
      <3> QED
        BY <3>1, <3>2, RegistryAssumption DEF ReplyOK, Party
    <2>2. ASSUME NEW r \in Req, Timeout(r), ~ UNCHANGED <<once, writer>>
          PROVE  /\ writer[r] # "handler"
                 /\ BeginWrite(r, "sweeper") \/ EndWrite(r, "sweeper")
      <3>1. r \in expired /\ (BeginWrite(r, "sweeper") \/ EndWrite(r, "sweeper"))
        BY <2>2 DEF Timeout, slotVars
      <3> QED
        BY <3>1 DEF IInv, SlotOK, Taken
    <2>3. ASSUME NEW r \in Req, Drain(r), ~ UNCHANGED <<once, writer>>
          PROVE  /\ writer[r] # "handler"
                 /\ BeginWrite(r, "drain") \/ EndWrite(r, "drain")
      <3>1. r \in victims /\ (BeginWrite(r, "drain") \/ EndWrite(r, "drain"))
        BY <2>3 DEF Drain, slotVars
      <3> QED
        BY <3>1 DEF IInv, SlotOK, Taken
    <2>4. CASE \/ sweepExpired \/ Swept \/ DrainAll \/ Drained \/ StartEngine
               \/ \E j \in {"stop", "deploy"}, open \in BOOLEAN : Swap(j, open)
      BY <2>4 DEF sweepExpired, Swept, DrainAll, Drained, StartEngine, Swap, slotVars
    <2>5. "sweeper" \in Party /\ "drain" \in Party
      BY DEF Party
    <2> QED
      BY <2>1, <2>2, <2>3, <2>4, <2>5 DEF SweeperStep, EngineStep
  <1>3. ASSUME NEW r \in Req, NEW a \in Party, a # "handler", writer[r] # "handler",
               BeginWrite(r, a) \/ EndWrite(r, a)
        PROVE  UNCHANGED <<absAnswer, absGone, absFailed>> \/ OneShot!Answer(r, a)
    BY <1>1, <1>3, WriteRefines
  <1>4. CASE UNCHANGED <<once, writer>>
    <2>1. absAnswer' = absAnswer
      BY <1>4, SameAnswer
    <2> QED
      BY <1>0, <2>1
  <1>5. CASE \E r \in Req, a \in Party :
                a # "handler" /\ writer[r] # "handler" /\ (BeginWrite(r, a) \/ EndWrite(r, a))
    <2> PICK r \in Req, a \in Party :
                a # "handler" /\ writer[r] # "handler" /\ (BeginWrite(r, a) \/ EndWrite(r, a))
      BY <1>5
    <2>1. UNCHANGED <<absAnswer, absGone, absFailed>> \/ OneShot!Answer(r, a)
      BY <1>3
    <2> QED
      BY <2>1
  <1> QED
    BY <1>2, <1>4, <1>5

(* However the flow, the timeouts, the drains and the handlers interleave,  *)
(* an exchange is one answer, by one party, before the handler returns; a   *)
(* handler that panics fails the exchange, and nothing is promised of the   *)
(* order of its 500 and the answer.                                         *)
THEOREM Refinement == Safety => ImplementsOneShot
  <1>1. Init => OneShot!Init
    BY DEF Init, OneShot!Init
  <1>2. IInv /\ [Next]_vars => [OneShot!Next]_<<absAnswer, absGone, absFailed>>
    <2> SUFFICES ASSUME IInv, [Next]_vars PROVE [OneShot!Next]_<<absAnswer, absGone, absFailed>>
      OBVIOUS
    <2>1. CASE UNCHANGED vars
      BY <2>1, SameAnswer, SameGone DEF vars, slotVars
    <2>2. CASE Next
      BY <2>2, HandlerRefines, AnswerRefines DEF Next, OneShot!Next
    <2> QED
      BY <2>1, <2>2
  <1>3. IInv /\ [Next]_vars => [OneShot!Next]_<<[r \in Req |-> IF once[r] = "busy" THEN Nobody
                                                             ELSE writer[r]],
                                                {r \in Req : handler[r] = "returned"},
                                                {r \in Req : handler[r] = "panicked"}>>
    BY <1>2 DEF absAnswer, absGone, absFailed
  <1> QED
    BY <1>1, <1>3, AlwaysInv, PTL DEF Safety, ImplementsOneShot, OneShot!Spec
=============================================================================
