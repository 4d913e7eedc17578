------------------------------ MODULE Correctness -------------------------------
(***************************************************************************)
(* The unit tests (unit_tests/shared_ptr_nc/correctness.cpp) as programs   *)
(* of the modelled library.  A test is a sequence of calls; a call may be  *)
(* followed by what the test requires at that point.  A call marked body   *)
(* is made inside the destructor of the instance.                          *)
(*                                                                         *)
(* The variables have the names of the tests, weak pointers with a w in    *)
(* front; foo4 and foo2 are the pointers of SharedFromThisTest.            *)
(***************************************************************************)
EXTENDS Accessors, SequencesExt

VARIABLES
  test,   \* the test that runs, counted from 1
  pc      \* the calls it has made

testVars == <<vars, test, pc>>

TestInstances == {"t1", "t2", "s1"}   \* TestInstance and subclasses
Subclasses    == {"s1"}               \* TestInstanceSubclass, TestInstanceSubclassVtable

(***************************************************************************)
(* Requirements.  A test that asks for counts names the instances of its   *)
(* classes that are alive, the number of control blocks, and the strong    *)
(* and the weak count of variables.                                        *)
(***************************************************************************)
Nothing == [kind |-> "nothing"]
Counts(live, blocks, counts) ==
  [kind |-> "counts", live |-> live, blocks |-> blocks, counts |-> counts]
Equal(v, u) == [kind |-> "equal", lhs |-> v, rhs |-> u]

\* TestInstance::LiveInstanceCount and its subclasses' (sInstanceCount).
LiveInstanceCount(class) == Cardinality({b \in class : inst[b] \in {"live", "dying"}})

Require(r) ==
  /\ r.kind = "counts" =>
       /\ LiveInstanceCount(TestInstances) = Cardinality(r.live)
       /\ LiveInstanceCount(Subclasses) = Cardinality(r.live \cap Subclasses)
       /\ live_instance_count = r.blocks
       /\ \A c \in r.counts : use_count(c[1]) = c[2] /\ weak_count(c[1]) = c[3]
  /\ r.kind = "equal" => IF r.rhs = NULL THEN get(r.lhs) = NULL ELSE equal(r.lhs, r.rhs)

(***************************************************************************)
(* Building tests: calls followed by a requirement.                        *)
(***************************************************************************)
Calls(calls, require) ==
  [i \in DOMAIN calls |->
     [op |-> calls[i][1], x |-> calls[i][2], y |-> calls[i][3], body |-> FALSE,
      require |-> IF i = Len(calls) THEN require ELSE Nothing]]

InBody(script) == [i \in DOMAIN script |-> [script[i] EXCEPT !.body = TRUE]]

\* v(new T), v.reset(new T), v = shared_ptr_nc<T>(), and one call.
NewTo(v, b)   == <<<<"New", b, b>>, <<"AdoptCtor", v, b>>>>
ResetNew(v, b) == <<<<"New", b, b>>, <<"ResetTo", v, b>>>>
Clear(v)      == <<<<"DefaultCtor", "temp", "temp">>, <<"MoveAssign", v, "temp">>,
                   <<"Destroy", "temp", "temp">>>>
WeakClear(w)  == <<<<"WeakDefaultCtor", "wtemp", "wtemp">>, <<"WeakMoveAssign", w, "wtemp">>,
                   <<"WeakDestroy", "wtemp", "wtemp">>>>
Call(op, x, y) == <<<<op, x, y>>>>

\* At the end of its scope a test destroys its locals in the reverse order of
\* construction.
Temporaries == {"temp", "wtemp"}
Constructors ==
  {"DefaultCtor", "AdoptCtor", "MakeShared", "CopyCtor", "MoveCtor", "PointerCast",
   "SharedFromThis", "Lock"}
WeakConstructors == {"WeakDefaultCtor", "WeakCopyCtor", "WeakFromShared"}

EndOfScope(script, require) ==
  LET Constructs(c) == c.op \in Constructors \cup WeakConstructors /\ c.x \notin Temporaries
      locals == Reverse(SelectSeq(script, Constructs))
  IN  Calls([i \in DOMAIN locals |->
               <<IF locals[i].op \in Constructors THEN "Destroy" ELSE "WeakDestroy",
                 locals[i].x, locals[i].x>>],
            require)

\* Most tests require that nothing is left (ValidateInitialState).
Unchecked(script) == script \o EndOfScope(script, Nothing)
Scoped(script)    == script \o EndOfScope(script, Counts({}, 0, {}))
ScopedAll(scripts) == [i \in DOMAIN scripts |-> Scoped(scripts[i])]

\* A test begins with foo(new T) in most cases.
FooOwns(b) == Calls(NewTo("foo", b), Counts({b}, 1, {<<"foo", 1, 0>>}))
FooIsNull  == Calls(Call("DefaultCtor", "foo", "foo"), Counts({}, 0, {<<"foo", 0, 0>>}))
WBarOfFoo  == Calls(Call("WeakFromShared", "wbar", "foo"),
                    Counts({"t1"}, 1, {<<"foo", 1, 1>>, <<"wbar", 1, 1>>}))

(***************************************************************************)
(* BasicTests: construction and copy.                                      *)
(***************************************************************************)
ConstructorTests == <<
  FooIsNull,   \* shared_ptr()
  FooIsNull,   \* shared_ptr(nullptr)
  FooIsNull,   \* shared_ptr(T*), null
  FooOwns("t1"),
  FooOwns("s1"),
  FooIsNull \o Calls(Call("CopyCtor", "bar", "foo"), Counts({}, 0, {<<"bar", 0, 0>>})),
  FooOwns("t1") \o
    Calls(Call("CopyCtor", "bar", "foo"), Counts({"t1"}, 1, {<<"bar", 2, 0>>, <<"foo", 2, 0>>})),
  FooOwns("s1") \o
    Calls(Call("CopyCtor", "bar", "foo"), Counts({"s1"}, 1, {<<"bar", 2, 0>>, <<"foo", 2, 0>>}))
>>

\* operator=(const shared_ptr_nc&), to a null pointer and to one that owns.
BothOwn(b) ==
  Calls(Call("CopyAssign", "bar", "foo"), Counts({b}, 1, {<<"foo", 2, 0>>, <<"bar", 2, 0>>}))

AssignTests == <<
  FooOwns("t1") \o
    Calls(Call("DefaultCtor", "bar", "bar"), Counts({"t1"}, 1, {<<"foo", 1, 0>>})) \o BothOwn("t1"),
  FooOwns("t1") \o
    Calls(NewTo("bar", "t2"), Counts({"t1", "t2"}, 2, {<<"bar", 1, 0>>, <<"foo", 1, 0>>})) \o
    BothOwn("t1"),
  FooOwns("s1") \o
    Calls(Call("DefaultCtor", "bar", "bar"),
          Counts({"s1"}, 1, {<<"foo", 1, 0>>, <<"bar", 0, 0>>})) \o
    BothOwn("s1")
>>

\* operator=(shared_ptr_nc&&), from a temporary and from a variable.
MoveTests == <<
  Calls(Call("DefaultCtor", "foo", "foo") \o Clear("foo"), Counts({}, 0, {<<"foo", 0, 0>>})),
  FooOwns("t1") \o Calls(Clear("foo"), Counts({}, 0, {<<"foo", 0, 0>>})),
  FooOwns("s1") \o Calls(Clear("foo"), Counts({}, 0, {<<"foo", 0, 0>>})),
  FooOwns("t1") \o
    Calls(NewTo("bar", "s1"), Counts({"t1", "s1"}, 2, {<<"bar", 1, 0>>})) \o
    Calls(Call("MoveAssign", "bar", "foo"), Counts({"t1"}, 1, {<<"foo", 0, 0>>, <<"bar", 1, 0>>}))
>>

\* reset() and reset(T*).
ResetTests == <<
  FooIsNull \o Calls(Call("Reset", "foo", "foo"), Counts({}, 0, {<<"foo", 0, 0>>})),
  FooIsNull \o Calls(ResetNew("foo", "t1"), Counts({"t1"}, 1, {<<"foo", 1, 0>>})),
  FooIsNull \o Calls(ResetNew("foo", "s1"), Counts({"s1"}, 1, {<<"foo", 1, 0>>})),
  FooOwns("t1") \o Calls(Call("Reset", "foo", "foo"), Counts({}, 0, {<<"foo", 0, 0>>})),
  FooOwns("t1") \o Calls(ResetNew("foo", "s1"), Counts({"s1"}, 1, {<<"foo", 1, 0>>}))
>>

(***************************************************************************)
(* BasicTests: weak_ptr.                                                   *)
(***************************************************************************)
FooExpires ==
  Calls(Call("Reset", "foo", "foo"), Counts({}, 1, {<<"foo", 0, 0>>, <<"wbar", 0, 1>>}))

WeakTests == <<
  Calls(Call("WeakDefaultCtor", "wfoo", "wfoo"), Counts({}, 0, {<<"wfoo", 0, 0>>})),
  Calls(Call("WeakDefaultCtor", "wfoo", "wfoo") \o Call("WeakCopyCtor", "wbar", "wfoo"),
        Counts({}, 0, {<<"wfoo", 0, 0>>, <<"wbar", 0, 0>>})),
  FooIsNull \o Calls(Call("WeakFromShared", "wbar", "foo"), Counts({}, 0, {<<"foo", 0, 0>>})),
  FooOwns("t1") \o WBarOfFoo,
  FooOwns("t1") \o WBarOfFoo \o FooExpires,
  FooOwns("t1") \o WBarOfFoo \o
    Calls(WeakClear("wbar"), Counts({"t1"}, 1, {<<"foo", 1, 0>>, <<"wbar", 0, 0>>}))
>>

WeakAssignTests == <<
  FooOwns("t1") \o WBarOfFoo \o
    Calls(Call("WeakDefaultCtor", "wbaz", "wbaz") \o Call("WeakMoveAssign", "wbaz", "wbar"),
          Counts({"t1"}, 1, {<<"foo", 1, 1>>, <<"wbar", 0, 0>>, <<"wbaz", 1, 1>>})),
  FooOwns("t1") \o WBarOfFoo \o
    Calls(Call("WeakDefaultCtor", "wbaz", "wbaz") \o Call("WeakCopyAssign", "wbaz", "wbar"),
          Counts({"t1"}, 1, {<<"foo", 1, 2>>, <<"wbar", 1, 2>>, <<"wbaz", 1, 2>>}))
>>

LockTests == <<
  Calls(Call("WeakDefaultCtor", "wbar", "wbar"), Counts({}, 0, {<<"wbar", 0, 0>>})) \o
    Calls(Call("Lock", "foo", "wbar"), Counts({}, 0, {<<"wbar", 0, 0>>, <<"foo", 0, 0>>})),
  FooOwns("t1") \o WBarOfFoo \o
    Calls(Call("Lock", "baz", "wbar"),
          Counts({"t1"}, 1, {<<"foo", 2, 1>>, <<"wbar", 2, 1>>, <<"baz", 2, 1>>})),
  \* "lock resets a cb when the strong count is 0"
  FooOwns("t1") \o WBarOfFoo \o FooExpires \o
    Calls(Call("Lock", "baz", "wbar"),
          Counts({}, 0, {<<"foo", 0, 0>>, <<"wbar", 0, 0>>, <<"baz", 0, 0>>}))
>>

(***************************************************************************)
(* BasicTests: make_shared, casts, and a weak_ptr to the instance that is  *)
(* being destroyed.                                                        *)
(***************************************************************************)
\* foo = make_shared<U>(), by way of a temporary of another type.
MakeConverted(b) ==
  Call("MakeShared", "temp", b) \o Call("MoveCtor", "foo", "temp") \o
  Call("Destroy", "temp", "temp")

MakeSharedTests == <<
  Calls(Call("MakeShared", "foo", "t1"), Counts({"t1"}, 1, {<<"foo", 1, 0>>})),
  Calls(MakeConverted("s1"), Counts({"s1"}, 1, {<<"foo", 1, 0>>}))
>>

\* static_pointer_cast and dynamic_pointer_cast back to the subclass.
CastBack ==
  Calls(Call("MakeShared", "foo", "s1") \o Call("CopyCtor", "bar", "foo") \o
        Call("PointerCast", "baz", "bar"),
        Counts({"s1"}, 1, {<<"foo", 3, 0>>}))

CastTests == <<
  CastBack,
  CastBack,
  Calls(MakeConverted("s1") \o Call("PointerCast", "baz", "foo"),
        Counts({"s1"}, 1, {<<"foo", 2, 0>>}))
>>

\* mWeakSelf is assigned, not constructed, from the pointer to its instance.
DestructorTest ==
  Unchecked(Calls(NewTo("foo", "d") \o Call("WeakAssignShared", "mWeakSelf", "foo"), Nothing)) \o
  InBody(Calls(Call("Lock", "ptr", "mWeakSelf"), Equal("ptr", NULL)) \o
         Calls(Call("Destroy", "ptr", "ptr"), Nothing))

\* What it requires is an address: see Aligned in module InstancePair.
AlignmentTest == Unchecked(Calls(Call("MakeShared", "foo", "t1"), Nothing))

SharedFromThisTest == <<
  Unchecked(Calls(Call("MakeShared", "foo4", "e") \o Call("SharedFromThis", "foo2", "e"),
                  Equal("foo4", "foo2"))),
  Unchecked(Calls(NewTo("foo4", "e") \o Call("SharedFromThis", "foo2", "e"),
                  Equal("foo4", "foo2")))
>>

BasicTests ==
  ScopedAll(ConstructorTests \o AssignTests \o MoveTests \o ResetTests \o WeakTests \o
            WeakAssignTests \o LockTests \o MakeSharedTests \o CastTests) \o
  <<DestructorTest>>

\* In the order of Perform().
Tests == BasicTests \o <<AlignmentTest>> \o SharedFromThisTest

(***************************************************************************)
(* Running the tests.                                                      *)
(***************************************************************************)
Running   == test <= Len(Tests)
Script    == Tests[test]
MoreCalls == pc < Len(Script)
BodyCallNext == MoreCalls /\ Script[pc + 1].body

\* The calls, by the types of their operands.
SharedCall(op, v) ==
  \/ op = "DefaultCtor" /\ DefaultCtor(v)
  \/ op = "Reset" /\ Reset(v)
  \/ op = "Destroy" /\ Destroy(v)

InstanceCall(op, v, b) ==
  \/ op = "AdoptCtor" /\ AdoptCtor(v, b)
  \/ op = "MakeShared" /\ MakeShared(v, b)
  \/ op = "SharedFromThis" /\ SharedFromThis(v, b)
  \/ op = "ResetTo" /\ ResetTo(v, b)

SharedSharedCall(op, v, u) ==
  \/ op = "CopyCtor" /\ CopyCtor(v, u)
  \/ op = "MoveCtor" /\ MoveCtor(v, u)
  \/ op = "PointerCast" /\ PointerCast(v, u)
  \/ op = "CopyAssign" /\ CopyAssign(v, u)
  \/ op = "MoveAssign" /\ MoveAssign(v, u)

WeakCall(op, w) ==
  \/ op = "WeakDefaultCtor" /\ WeakDefaultCtor(w)
  \/ op = "WeakDestroy" /\ WeakDestroy(w)

WeakWeakCall(op, w, x) ==
  \/ op = "WeakCopyCtor" /\ WeakCopyCtor(w, x)
  \/ op = "WeakCopyAssign" /\ WeakCopyAssign(w, x)
  \/ op = "WeakMoveAssign" /\ WeakMoveAssign(w, x)

WeakSharedCall(op, w, v) ==
  \/ op = "WeakFromShared" /\ WeakFromShared(w, v)
  \/ op = "WeakAssignShared" /\ WeakAssignShared(w, v)

MakeCall(op, x, y) ==
  \/ x \in Block /\ op = "New" /\ New(x)
  \/ x \in SharedVar /\ SharedCall(op, x)
  \/ x \in SharedVar /\ y \in Block /\ InstanceCall(op, x, y)
  \/ x \in SharedVar /\ y \in SharedVar /\ SharedSharedCall(op, x, y)
  \/ x \in SharedVar /\ y \in WeakVar /\ op = "Lock" /\ Lock(x, y)
  \/ x \in WeakVar /\ WeakCall(op, x)
  \/ x \in WeakVar /\ y \in WeakVar /\ WeakWeakCall(op, x, y)
  \/ x \in WeakVar /\ y \in SharedVar /\ WeakSharedCall(op, x, y)

\* The calls marked body are made in the destructor, the others outside of one.
NextCall ==
  /\ Running /\ MoreCalls
  /\ BodyCallNext <=> stack # <<>>
  /\ LET c == Script[pc + 1] IN MakeCall(c.op, c.x, c.y)
  /\ pc' = pc + 1
  /\ UNCHANGED test

DestructorRuns ==
  /\ Running
  /\ stack # <<>> /\ (Top.body => ~ BodyCallNext)
  /\ DestructorStep
  /\ UNCHANGED <<test, pc>>

\* The next test, when the locals of this one are gone; its instances are new
\* ones, of the same names.
NextTest ==
  /\ Running /\ ~ MoreCalls /\ stack = <<>> /\ scope = {}
  /\ test' = test + 1
  /\ pc' = 0
  /\ mStrong' = [b \in Block |-> 0]
  /\ mWeak' = [b \in Block |-> 0]
  /\ mem' = [b \in Block |-> "none"]
  /\ inst' = [b \in Block |-> "none"]
  /\ shared_from_this_data' = [b \in Block |-> NULL]
  /\ UNCHANGED <<mHandle, mPtr, scope, stack, fault>>

TestInit == Init /\ test = 1 /\ pc = 0
TestNext == NextCall \/ DestructorRuns \/ NextTest

(***************************************************************************)
(* Properties.                                                             *)
(***************************************************************************)

\* The last call has returned.
Returned == pc > 0 /\ (IF Script[pc].body THEN stack # <<>> /\ Top.body ELSE stack = <<>>)

\* Every UNITTEST_REQUIRE holds where it stands: the counts after each call, in
\* the destructor that asks lock() for the dying instance, and, at the end of
\* its scope, that a test leaves no instance and no control block behind
\* (ValidateInitialState).
RequirementsHold == Running /\ Returned => Require(Script[pc].require)

\* Whatever a test has done, also in a destructor, and in whichever order its
\* variables go: when the last one is gone, no control block is left
\* (ControlBlockInstanceValidator::ValidateInitialState) and no instance that a
\* smart pointer had, for the tests as well that do not ask.
InitialStateRestored ==
  scope = {} /\ stack = <<>> =>
    /\ live_instance_count = 0
    /\ \A b \in Block : inst[b] \in {"live", "dying"} => mem[b] = "none"
=============================================================================
