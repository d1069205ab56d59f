------------------------------- MODULE HostApi -------------------------------
(***************************************************************************)
(* What the C interface does to the host's part of the VM stack            *)
(* (squirrel/sqapi.cpp): which values each function takes, which it leaves,*)
(* and what is on the stack when it fails.  A value is its type; an array  *)
(* is "array", or "array0" when it is empty.  What depends on data the     *)
(* stack does not show (is the key in the table, does the metamethod       *)
(* raise) is open: an operator is the SET of outcomes of a call on stack s.*)
(* Indices are the API's: from the bottom from 1, from the top from -1.    *)
(*                                                                         *)
(* A function that the host calls may suspend the VM (sq_suspendvm).  The  *)
(* stack is then still the host's part, while the API's indices are those  *)
(* of the frame that waits; all the host does is wake the VM up, with a    *)
(* value that it leaves in that frame.  That a metamethod suspends a VM    *)
(* that the host itself has entered is left out.                           *)
(***************************************************************************)
EXTENDS Integers, Sequences

CONSTANTS Types,       \* the types of values the host pushes
          MaxTop,      \* bound: values on the stack before a call
          StackGrows   \* whether a resumed generator may outgrow the stack

ASSUME HostAssumption == StackGrows \in BOOLEAN /\ MaxTop \in Nat /\ "null" \in Types

Ok(s)       == [st |-> s, ok |-> TRUE, waits |-> FALSE]
Fail(s)     == [st |-> s, ok |-> FALSE, waits |-> FALSE]
Suspends(s) == [st |-> s, ok |-> TRUE, waits |-> TRUE]
Either(a, b) == {Ok(a), Fail(b)}
OkIf(test, a, s) == IF test THEN {Ok(a)} ELSE {Fail(s)}

\* SQVM::Push, Pop, stack_get and GetUp
Pushed(s, t)  == Append(s, t)
Pop(s, n)   == SubSeq(s, 1, Len(s) - n)
Pos(s, i)   == IF i > 0 THEN i ELSE Len(s) + i + 1
Get(s, i)    == s[Pos(s, i)]
Removed(s, p) == SubSeq(s, 1, p - 1) \o SubSeq(s, p + 1, Len(s))
Replaced(s, i, t) == [s EXCEPT ![Pos(s, i)] = t]

Closures == {"closure", "nativeclosure"}
Arrays == {"array", "array0"}
Refcounted == Types \ {"null", "number"}

-----------------------------------------------------------------------------
(* Values pushed and objects created                                       *)
PushesValue(s)  == {Ok(Pushed(s, t)) : t \in {"null", "string", "number", "userpointer", "thread"}}
CreatesObject(s) == {Ok(Pushed(s, t)) : t \in {"userdata", "table", "array", "array0"}}
PushesTable(s)  == {Ok(Pushed(s, "table"))}
sq_push(s, i)   == {Ok(Pushed(s, Get(s, i)))}
sq_pushobj(s)   == {Ok(Pushed(s, t)) : t \in Types}
sq_newthread(s) == {Ok(Pushed(s, "thread")), Fail(s)}
sq_getlasterror(s) == {Ok(Pushed(s, t)) : t \in {"null", "string"}}
sq_compile(s)   == Either(Pushed(s, "closure"), s)
sq_readclosure(s) == Either(Pushed(s, "closure"), s)
sq_getcallee(s) == Either(Pushed(s, "closure"), s)
sq_obj_get(s)   == Either(Pushed(s, "result"), s)

sq_newclass(s, hasbase) ==
    IF ~hasbase THEN {Ok(Pushed(s, "class"))}
    ELSE IF Get(s, -1) # "class" THEN {Fail(s)}
    ELSE Either(Pushed(Pop(s, 1), "class"), Pop(s, 1))

sq_newclosure(s, n) == {Ok(Pushed(Pop(s, n), "nativeclosure"))}

(* Stack operations                                                        *)
sq_settop(s, n) == {Ok(IF Len(s) > n THEN SubSeq(s, 1, n)
                       ELSE s \o [k \in 1..(n - Len(s)) |-> "null"])}
sq_pop(s, n)    == {Ok(Pop(s, n))}
sq_remove(s, i) == {Ok(Removed(s, Pos(s, i)))}

-----------------------------------------------------------------------------
(* Arrays                                                                  *)
sq_arrayappend(s, i) ==
    OkIf(Len(s) >= 2 /\ Get(s, i) \in Arrays,
         Pop(IF Get(s, i) = "array0" THEN Replaced(s, i, "array") ELSE s, 1), s)

sq_arraypop(s, i, pushval) ==
    IF Get(s, i) # "array" THEN {Fail(s)}
    ELSE {Ok(IF pushval THEN Pushed(Replaced(s, i, t), "result") ELSE Replaced(s, i, t)) : t \in Arrays}

sq_arrayresize(s, i) == IF Get(s, i) \in Arrays
                          THEN {Fail(s)} \cup {Ok(Replaced(s, i, t)) : t \in Arrays} ELSE {Fail(s)}
sq_arrayreverse(s, i) == OkIf(Get(s, i) \in Arrays, s, s)
sq_arrayremove(s, i) == IF Get(s, i) = "array"
                          THEN {Fail(s)} \cup {Ok(Replaced(s, i, t)) : t \in Arrays} ELSE {Fail(s)}
sq_arrayinsert(s, i) == IF Get(s, i) \in Arrays THEN Either(Pop(Replaced(s, i, "array"), 1), Pop(s, 1))
                        ELSE {Fail(s)}

-----------------------------------------------------------------------------
(* Tables, classes and instances                                           *)
Slotted == {"table", "class", "instance"} \cup Arrays

sq_newslot(s, i) == IF Len(s) >= 3 /\ Get(s, i) \in {"table", "class"}
                      THEN Either(Pop(s, 2), s) ELSE {Fail(s)}

sq_deleteslot_Bug(s, i, pushval) ==
    IF Len(s) < 2 \/ Get(s, i) # "table" THEN {Fail(s)}
    ELSE Either(Replaced(s, -1, "result"), Pop(s, 1))

sq_deleteslot(s, i, pushval) ==
    IF Len(s) < 2 \/ Get(s, i) # "table" THEN {Fail(s)}
    ELSE Either(IF pushval THEN Replaced(s, -1, "result") ELSE Pop(s, 1), Pop(s, 1))

sq_rawdeleteslot(s, i, pushval) ==
    IF Len(s) < 2 \/ Get(s, i) # "table" THEN {Fail(s)}
    ELSE Either(IF pushval THEN Replaced(s, -1, "result") ELSE Pop(s, 1), s)

sq_set(s, i) == Either(Pop(s, 2), s)

\* The key and the value go even when the object has no slots at all.
sq_rawset(s, i) == IF Get(s, i) \in Slotted THEN Either(Pop(s, 2), s) ELSE {Fail(Pop(s, 2)), Fail(s)}

sq_newmember(s, i) == IF Get(s, i) = "class" THEN Either(Pop(s, 2), Pop(s, 2)) ELSE {Fail(s)}

\* The key is replaced by the value, and popped when there is none.
sq_get(s, i)    == Either(Replaced(s, -1, "result"), Pop(s, 1))
sq_rawget(s, i) == Either(Replaced(s, -1, "result"), Pop(s, 1))

sq_setdelegate(s, i) ==
    IF Get(s, i) = "table" /\ Get(s, -1) = "table" THEN Either(Pop(s, 1), s)
    ELSE OkIf(Get(s, i) \in {"table", "userdata"} /\ Get(s, -1) \in {"table", "null"}, Pop(s, 1), s)

sq_getdelegate(s, i) == IF Get(s, i) \in {"table", "userdata"}
                          THEN {Ok(Pushed(s, t)) : t \in {"null", "table"}} ELSE {Fail(s)}

\* The iterator on top is advanced in place; key and value are pushed over it.
\* _nexti may return an iterator of any type; a null ends the iteration, and an
\* index that is not in the object is an error, both after the iterator is set.
Iterated == {"table", "string", "class"} \cup Arrays
Advanced(s, t) == Replaced(s, -1, t) \o <<"result", "result">>

sq_next(s, i) ==
    {Fail(s)} \cup
    CASE Get(s, i) \in Iterated -> {Ok(Advanced(s, "number"))}
      [] Get(s, i) \in {"instance", "userdata"} ->
           {Ok(Advanced(s, t)) : t \in {"number", "result"}} \cup
           {Fail(Replaced(s, -1, t)) : t \in {"null", "result"}}
      [] OTHER -> {}

sq_clear(s, i) == OkIf(Get(s, i) \in Arrays \cup {"table"},
                       IF Get(s, i) \in Arrays THEN Replaced(s, i, "array0") ELSE s, s)
sq_clone(s, i) == Either(Pushed(s, Get(s, i)), s)
sq_getbase(s, i) == IF Get(s, i) = "class" THEN {Ok(Pushed(s, t)) : t \in {"null", "class"}}
                    ELSE {Fail(s)}
sq_getclass(s, i) == OkIf(Get(s, i) = "instance", Pushed(s, "class"), s)
sq_createinstance(s, i) == IF Get(s, i) = "class" THEN Either(Pushed(s, "instance"), s)
                           ELSE {Fail(s)}
sq_weakref(s, i) == {Ok(Pushed(s, IF Get(s, i) \in Refcounted THEN "weakref" ELSE Get(s, i)))}
sq_getweakrefval(s, i) == IF Get(s, i) = "weakref" THEN {Ok(Pushed(s, "result"))} ELSE {Fail(s)}
sq_freeze(s, i) == OkIf(Get(s, i) \in Slotted \cup {"userdata"}, Pushed(s, Get(s, i)), s)

sq_getmemberhandle(s, i) == IF Get(s, i) = "class" THEN Either(Pop(s, 1), s) ELSE {Fail(s)}
sq_getbyhandle(s, i) == IF Get(s, i) \in {"class", "instance"} THEN Either(Pushed(s, "result"), s)
                        ELSE {Fail(s)}
sq_setbyhandle(s, i) == IF Get(s, i) \in {"class", "instance"} THEN Either(Pop(s, 1), s)
                        ELSE {Fail(s)}

-----------------------------------------------------------------------------
(* Closures and calls                                                      *)
sq_bindenv(s, i) ==
    OkIf(Get(s, i) \in Closures /\ Get(s, -1) \in Slotted, Pushed(Pop(s, 1), Get(s, i)), s)

sq_getclosurename(s, i) == IF Get(s, i) \in Closures
                             THEN {Ok(Pushed(s, t)) : t \in {"null", "string"}} ELSE {Fail(s)}
sq_setparamscheck(s) == IF Get(s, -1) = "nativeclosure" THEN Either(s, s) ELSE {Fail(s)}
sq_getfreevariable(s, i) == IF Get(s, i) \in Closures THEN Either(Pushed(s, "result"), s)
                            ELSE {Fail(s)}
sq_setfreevariable(s, i) == IF Get(s, i) \in Closures THEN Either(Pop(s, 1), s) ELSE {Fail(s)}
sq_getlocal(s) == Either(Pushed(s, "result"), s)

\* typeof and tostring may run a metamethod.
sq_typeof(s, i)   == Either(Pushed(s, "result"), s)
sq_tostring(s, i) == Either(Pushed(s, "string"), s)

sq_throwobject(s) == {Fail(Pop(s, 1))}

\* Popping handlers and tables of the VM: a wrong type is left where it is.
SetsFromTop(s, types) == OkIf(Get(s, -1) \in types, Pop(s, 1), s)
sq_seterrorhandler(s) == SetsFromTop(s, Closures \cup {"null"})
sq_setdebughook(s)    == SetsFromTop(s, Closures \cup {"null"})
sq_setroottable(s)    == SetsFromTop(s, {"table", "null"})
sq_setconsttable(s)   == SetsFromTop(s, {"table"})

\* A native closure and its slot in the table or class below the free variables:
\* name and closure are pushed for sq_newslot, which keeps them when it fails.
sq_new_closure_slot_from_decl_string(s, n) ==
    {Fail(Pop(s, n))} \cup sq_newslot(Pop(s, n) \o <<"string", "nativeclosure">>, -3)

\* The arguments go, also when the call fails; the closure stays.  Nothing goes
\* when a script suspends the VM; a constructor's first argument is the instance.
Entered(s, n) == IF Get(s, -(n + 1)) = "class" THEN Replaced(s, -n, "instance") ELSE s

sq_call(s, n, retval) ==
    {Fail(Pop(s, n))} \cup
    (IF Get(s, -(n + 1)) \in Closures \cup {"class"}
     THEN {Ok(IF retval THEN Pushed(Pop(s, n), "result") ELSE Pop(s, n))} ELSE {}) \cup
    (IF Get(s, -(n + 1)) \in {"closure", "class"} THEN {Suspends(Entered(s, n))} ELSE {})

\* A slot for the result is pushed and handed to the interpreter by address: a
\* generator that outgrows the stack moves it, and its result is written to the
\* stack that was.
sq_resume(s, retval) ==
    IF Get(s, -1) # "generator" THEN {Fail(s)}
    ELSE {Fail(Pushed(s, "null"))} \cup
         UNION {{Ok(IF retval THEN Pushed(s, t) ELSE s), Suspends(Pushed(s, t))} :
                  t \in IF StackGrows THEN {"result", "null"} ELSE {"result"}}

\* The function that waits goes on, to its end or to the next suspension.
sq_wakeupvm(s, waits, retval) ==
    {Fail(s)} \cup
    (IF waits THEN {Ok(IF retval THEN Pushed(s, "result") ELSE s), Suspends(s)} ELSE {})

-----------------------------------------------------------------------------
(***************************************************************************)
(* Every call the host can make on a stack.  A call names its function,    *)
(* the values the documentation says it pops and pushes when it succeeds,  *)
(* and its outcomes.                                                       *)
(***************************************************************************)
Call(f, pops, pushes, outcomes) == [f |-> f, pops |-> pops, pushes |-> pushes, out |-> outcomes]

PlainCalls(s) ==
    { Call("sq_pushnull..sq_pushthread", 0, 1, PushesValue(s)),
      Call("sq_newtable..sq_newarray", 0, 1, CreatesObject(s)),
      Call("sq_pushroottable", 0, 1, PushesTable(s)), Call("sq_pushobject", 0, 1, sq_pushobj(s)),
      Call("sq_newthread", 0, 1, sq_newthread(s)), Call("sq_getlasterror", 0, 1, sq_getlasterror(s)),
      Call("sq_compile, sq_translateasttobytecode", 0, 1, sq_compile(s)),
      Call("sq_readclosure", 0, 1, sq_readclosure(s)),
      Call("sq_getcallee", 0, 1, sq_getcallee(s)), Call("sq_obj_get", 0, 1, sq_obj_get(s)),
      Call("sq_newclass", 0, 1, sq_newclass(s, FALSE)), Call("sq_getlocal", 0, 1, sq_getlocal(s)),
      Call("sq_wakeupvm", 0, 0, sq_wakeupvm(s, FALSE, FALSE)),
      Call("sq_new_closure_slot_from_decl_string", 0, 0,
           sq_new_closure_slot_from_decl_string(s, 0)) }

TopCalls(s) ==
    { Call("sq_newclass(base)", 1, 1, sq_newclass(s, TRUE)),
      Call("sq_newclosure", 1, 1, sq_newclosure(s, 1)), Call("sq_pop", 1, 0, sq_pop(s, 1)),
      Call("sq_seterrorhandler", 1, 0, sq_seterrorhandler(s)),
      Call("sq_setdebughook", 1, 0, sq_setdebughook(s)),
      Call("sq_setroottable", 1, 0, sq_setroottable(s)),
      Call("sq_setconsttable", 1, 0, sq_setconsttable(s)),
      Call("sq_setparamscheck", 0, 0, sq_setparamscheck(s)),
      Call("sq_throwobject", 1, 0, sq_throwobject(s)),
      Call("sq_new_closure_slot_from_decl_string", 1, 0,
           sq_new_closure_slot_from_decl_string(s, 1)) } \cup
    UNION {{ Call("sq_resume", 0, IF r THEN 1 ELSE 0, sq_resume(s, r)) } : r \in BOOLEAN}

IndexCalls(s, i) ==
    { Call("sq_push", 0, 1, sq_push(s, i)), Call("sq_clear", 0, 0, sq_clear(s, i)),
      Call("sq_arrayresize", 0, 0, sq_arrayresize(s, i)),
      Call("sq_arrayreverse", 0, 0, sq_arrayreverse(s, i)),
      Call("sq_arrayremove", 0, 0, sq_arrayremove(s, i)),
      Call("sq_arraypop", 0, 1, sq_arraypop(s, i, TRUE)),
      Call("sq_arraypop(no value)", 0, 0, sq_arraypop(s, i, FALSE)),
      Call("sq_getdelegate", 0, 1, sq_getdelegate(s, i)), Call("sq_clone", 0, 1, sq_clone(s, i)),
      Call("sq_getbase", 0, 1, sq_getbase(s, i)), Call("sq_getclass", 0, 1, sq_getclass(s, i)),
      Call("sq_createinstance", 0, 1, sq_createinstance(s, i)),
      Call("sq_weakref", 0, 1, sq_weakref(s, i)), Call("sq_freeze", 0, 1, sq_freeze(s, i)),
      Call("sq_getweakrefval", 0, 1, sq_getweakrefval(s, i)),
      Call("sq_getbyhandle", 0, 1, sq_getbyhandle(s, i)),
      Call("sq_getclosurename", 0, 1, sq_getclosurename(s, i)),
      Call("sq_getfreevariable", 0, 1, sq_getfreevariable(s, i)),
      Call("sq_typeof", 0, 1, sq_typeof(s, i)), Call("sq_tostring", 0, 1, sq_tostring(s, i)) }

\* Calls that take n values from the top besides the object at index i.
OneValueCalls(s, i) ==
    { Call("sq_arrayappend", 1, 0, sq_arrayappend(s, i)),
      Call("sq_arrayinsert", 1, 0, sq_arrayinsert(s, i)),
      Call("sq_deleteslot", 1, 1, sq_deleteslot(s, i, TRUE)),
      Call("sq_deleteslot(no value)", 1, 0, sq_deleteslot(s, i, FALSE)),
      Call("sq_rawdeleteslot", 1, 1, sq_rawdeleteslot(s, i, TRUE)),
      Call("sq_get", 1, 1, sq_get(s, i)), Call("sq_rawget", 1, 1, sq_rawget(s, i)),
      Call("sq_setdelegate", 1, 0, sq_setdelegate(s, i)),
      Call("sq_next", 1, 3, sq_next(s, i)), Call("sq_bindenv", 1, 1, sq_bindenv(s, i)),
      Call("sq_getmemberhandle", 1, 0, sq_getmemberhandle(s, i)),
      Call("sq_setbyhandle", 1, 0, sq_setbyhandle(s, i)),
      Call("sq_setfreevariable", 1, 0, sq_setfreevariable(s, i)) } \cup
    {Call("sq_call", 1, IF r THEN 1 ELSE 0, sq_call(s, 1, r)) : r \in BOOLEAN}

TwoValueCalls(s, i) ==
    { Call("sq_newslot", 2, 0, sq_newslot(s, i)), Call("sq_set", 2, 0, sq_set(s, i)),
      Call("sq_rawset", 2, 0, sq_rawset(s, i)), Call("sq_newmember", 2, 0, sq_newmember(s, i)) }

\* The indices, from the bottom and from the top, of what is below the n values on top.
Indices(s, n) == {k \in -Len(s)..Len(s) : k # 0 /\ Pos(s, k) <= Len(s) - n}

CallsOnTop(s) == IF s = <<>> THEN {} ELSE TopCalls(s)
CallsAtIndex(s) == UNION {IndexCalls(s, i) : i \in Indices(s, 0)}
CallsWithValue(s) == UNION {OneValueCalls(s, i) : i \in Indices(s, 1)}
CallsWithValues(s) == UNION {TwoValueCalls(s, i) : i \in Indices(s, 2)}
CallsOn(s) == PlainCalls(s) \cup CallsOnTop(s) \cup CallsAtIndex(s)
              \cup CallsWithValue(s) \cup CallsWithValues(s)

\* A VM that waits is woken up.
CallsWaiting(s) ==
    {Call("sq_wakeupvm", 0, IF r THEN 1 ELSE 0, sq_wakeupvm(s, TRUE, r)) : r \in BOOLEAN}

VARIABLES stack, suspended

hostVars == <<stack, suspended>>

HostInit == stack = <<>> /\ suspended = FALSE

HostCalls == IF suspended THEN CallsWaiting(stack) ELSE CallsOn(stack)

\* A call, and the host's own pops; what is pushed counts as a value of any type.
HostCall ==
    /\ suspended \/ Len(stack) < MaxTop
    /\ \E c \in HostCalls : \E o \in c.out :
         /\ suspended' = o.waits
         /\ \E t \in Types : stack' = [k \in DOMAIN o.st |-> IF o.st[k] = "result" THEN t ELSE o.st[k]]

Shrink ==
    /\ ~suspended /\ stack # <<>>
    /\ \E n \in 0..(Len(stack) - 1) : \E o \in sq_settop(stack, n) : stack' = o.st
    /\ UNCHANGED suspended

RemoveOne ==
    /\ ~suspended
    /\ \E i \in DOMAIN stack : \E o \in sq_remove(stack, i) : stack' = o.st
    /\ UNCHANGED suspended

HostNext == HostCall \/ Shrink \/ RemoveOne

HostSpec == HostInit /\ [][HostNext]_hostVars

-----------------------------------------------------------------------------
\* Arrays that become empty or not are the same value.
SameType(t, u) == t = u \/ {t, u} \subseteq Arrays

\* The n values at the bottom of the stack are where they were.
Keeps(n, s) == \A k \in 1..n : SameType(s[k], stack[k])

\* A call that succeeds takes and leaves as many values as the documentation
\* says, and the values below those it takes stay where they are.  "If the
\* execution of the function is suspended through sq_suspendvm(), the closure
\* and the arguments will not be automatically popped from the stack": only
\* sq_resume, which may suspend too, has added its slot.
EffectAsDocumented ==
    \A c \in HostCalls : \A o \in c.out :
      o.ok => /\ Len(o.st) = CASE ~o.waits -> Len(stack) - c.pops + c.pushes
                                [] o.waits /\ c.f = "sq_resume" -> Len(stack) + 1
                                [] OTHER -> Len(stack)
              /\ Keeps(Len(stack) - c.pops, o.st)

\* What a function that fails may leave on the stack: sq_resume the slot for the
\* result, sq_new_closure_slot_from_decl_string the name and the closure.
LeftBehind(f) ==
    CASE f = "sq_resume" -> 1
      [] f = "sq_new_closure_slot_from_decl_string" -> 2
      [] OTHER -> 0

\* A call that fails touches nothing below its arguments, has taken all of them
\* or none, and pushes nothing, the two functions above excepted: the host can
\* restore its top.  Arguments that are still there are what they were, but for
\* the iterator of sq_next, which the call may have ended or changed.
FailureTakesAllOrNothing ==
    \A c \in HostCalls : \A o \in c.out :
      ~o.ok => /\ Len(o.st) \in {Len(stack), Len(stack) - c.pops,
                                 Len(stack) - c.pops + LeftBehind(c.f)}
               /\ Keeps(Len(stack) - c.pops, o.st)
               /\ Len(o.st) = Len(stack) /\ c.f # "sq_next" => Keeps(Len(stack), o.st)

\* The host knows how many values are on its stack after every call, whether it
\* succeeds, fails or waits, and that the values below are those it put there.
StackAsDocumented == EffectAsDocumented /\ FailureTakesAllOrNothing

=============================================================================
