------------------------------- MODULE Unwind -------------------------------
(***************************************************************************)
(* try / catch / finally, throw, return, break, continue and defer: the    *)
(* code ir_compile.c emits for them, the part of the bytecode machine that *)
(* runs it (vm_except.c and the bottom of vm_exec_loop), and the meaning   *)
(* the program was written with.                                           *)
(*                                                                         *)
(* A program is a main function and one function it may call.  A statement *)
(* keeps of its source only what moves control; what it computes is a mark *)
(* it appends to the output.  Loops run Rounds times and are not nested, a *)
(* function's defers are its first statements, a try has one catch clause  *)
(* (for every error, or for errors of one type).  A frame is identified by *)
(* its depth: stackframe_destroy gives its memory back, so that the next   *)
(* frame of the same depth may have the same address.                      *)
(***************************************************************************)
EXTENDS Integers, Sequences, SequencesExt, FiniteSetsExt

CONSTANTS Programs, Rounds

ASSUME RoundsAssumption == Rounds \in Nat \ {0}

VARIABLES prog,    \* the program: [main, f], each [defer, body]
          code,    \* its two functions' instructions
          frames,  \* stack of frames [fn, pc, i], the running one last
          tries,   \* g_try_stack, the top first
          fins,    \* g_fin_stack, the top first; levels 0 is RETHROW
          pend,    \* g_has_pending_ret
          err,     \* g_current_throw_val; raw: not yet wrapped in a VAL_ERROR
          unwind,  \* g_unwind
          out,     \* the marks the program has left
          status   \* "run", "end", "exit" (uncaught) or "lost" (ended by an unwinding)

vars == <<prog, code, frames, tries, fins, pend, err, unwind, out, status>>

-----------------------------------------------------------------------------
(* Statements.  n is a mark, an error's type, or the type a clause takes.  *)

St(op, n, body, catch, fin) ==
  [op |-> op, n |-> n, body |-> body, catch |-> catch, fin |-> fin]
Act(m)        == St("act", m, <<>>, <<>>, <<>>)
Throw(t)      == St("throw", t, <<>>, <<>>, <<>>)
Plainly(op)   == St(op, 0, <<>>, <<>>, <<>>)
Block(ss)     == St("block", 0, ss, <<>>, <<>>)
Loop(s)       == St("loop", 0, <<s>>, <<>>, <<>>)
\* catch and fin are empty or hold the one statement of that part; a clause of type 0 takes any error
Try(s, t, catch, fin) == St("try", t, <<s>>, catch, fin)

-----------------------------------------------------------------------------
(* The compiler.  An address not known yet is a label the owner patches.   *)

ToFin == -1      \* entry of the innermost finally being compiled (fin_jmp, fin_pend)
ToBreak == -2    \* end of the innermost loop (brk, brk_fin)
ToCont == -3     \* its update (cont, cont_fin)
ToAfter == -4    \* end of a try without a finally (after_jmps)

I(op, a, b) == [op |-> op, a |-> a, b |-> b]

Patch(ins, label, at) ==
  LET fill(x) == IF x = label THEN at ELSE x
  IN [i \in DOMAIN ins |-> [ins[i] EXCEPT !.a = fill(@), !.b = fill(@)]]

\* leaving the loop from d finally scopes inside it runs them first
Leave(label, e) ==
  IF e.fins > e.owner THEN <<I("FIN_PUSH", e.fins - e.owner, label), I("JMP", ToFin, 0)>>
                      ELSE <<I("JMP", label, 0)>>

RECURSIVE Compile(_, _, _)

CompileAll(ss, at, e) ==
  FoldLeft(LAMBDA ins, s : ins \o Compile(s, at + Len(ins), e), <<>>, ss)

CompileReturn(at, e) ==
  CompileAll(e.defer, at, e)
    \o <<IF e.fins > 0 THEN I("PEND_RETURN", 1, ToFin) ELSE I("RETURN_NIL", 0, 0)>>

CompileLoop(s, at, e) ==
  LET body   == CompileAll(s.body, at + 2, [e EXCEPT !.owner = e.fins])
      update == at + 2 + Len(body)
      ins    == <<I("INIT", 0, 0), I("JMP_IF_FALSE", ToBreak, 0)>> \o body
                  \o <<I("UPDATE", 0, 0), I("JMP", at + 1, 0)>>
  IN Patch(Patch(ins, ToCont, update), ToBreak, update + 2)

\* the clause, and what follows it for an error it does not take
CompileCatch(s, at, e, exit) ==
  IF s.catch = <<>> THEN <<>>
  ELSE LET body == CompileAll(s.catch, at + 2, e)
       IN <<I("CATCH_MATCH", s.n, at + 3 + Len(body)), I("GET_ERR", 0, 0)>> \o body
            \o <<I("JMP", exit, 0)>>
            \o IF s.fin # <<>> THEN <<I("FIN_PUSH", 0, 0), I("JMP", ToFin, 0)>>
                               ELSE <<I("ENDTRY", 0, 0), I("THROW", 0, 0)>>

CompileTry(s, at, e) ==
  LET has     == s.fin # <<>>
      inside  == IF has THEN [e EXCEPT !.fins = @ + 1] ELSE e
      exit    == IF has THEN ToFin ELSE ToAfter
      body    == CompileAll(s.body, at + 1, inside)
      catchPc == at + 2 + Len(body)
      handler == CompileCatch(s, catchPc, inside, exit)
      finPc   == catchPc + Len(handler)
      guarded == <<I("TRY", IF handler = <<>> THEN 0 ELSE catchPc, IF has THEN finPc ELSE 0)>>
                   \o body \o <<I("JMP", exit, 0)>> \o handler
      final   == IF has THEN CompileAll(s.fin, finPc, e) \o <<I("FINISH", 0, 0)>> ELSE <<>>
  IN Patch(guarded, exit, finPc) \o final \o <<I("ENDTRY", 0, 0)>>

Compile(s, at, e) ==
  CASE s.op = "act"      -> <<I("PRINT", s.n, 0)>>
    [] s.op = "throw"    -> <<I("THROW", s.n, 0)>>
    [] s.op = "call"     -> <<I("CALL", 0, 0)>>
    [] s.op = "return"   -> CompileReturn(at, e)
    [] s.op = "break"    -> Leave(ToBreak, e)
    [] s.op = "continue" -> Leave(ToCont, e)
    [] s.op = "block"    -> CompileAll(s.body, at, e)
    [] s.op = "loop"     -> CompileLoop(s, at, e)
    [] s.op = "try"      -> CompileTry(s, at, e)

\* a function with defers is one try whose handler runs them and throws again
CompileFunction(f) ==
  LET has     == f.defer # <<>>
      e       == [fins |-> 0, owner |-> 0, defer |-> f.defer]
      first   == IF has THEN 1 ELSE 0
      body    == CompileAll(<<f.body>>, first, e)
      final   == IF has THEN CompileAll(f.defer, first + Len(body), e) \o <<I("ENDTRY", 0, 0)>>
                        ELSE <<>>
      handler == first + Len(body) + Len(final) + 1
  IN (IF has THEN <<I("TRY", handler, 0)>> ELSE <<>>)
       \o body \o final \o <<I("RETURN_NIL", 0, 0)>>
       \o IF has THEN CompileAll(f.defer, handler, e) \o <<I("THROW", 0, 0)>> ELSE <<>>

-----------------------------------------------------------------------------
(* The machine: one action for each instruction.                           *)

fp  == Len(frames)
top == frames[fp]
ins == code[top.fn][top.pc + 1]

Running(op) == status = "run" /\ unwind.to = 0 /\ ins.op = op
Go(pc)      == frames' = [frames EXCEPT ![fp].pc = pc]
Next1       == Go(top.pc + 1)
Pop(s)      == IF s = <<>> THEN s ELSE Tail(s)

\* the top of ts is a try of the running frame that has a finally (same_frame_outer_fin)
FinOnTop(ts) == ts # <<>> /\ Head(ts).frame = fp /\ Head(ts).fin # 0

\* the frame ends: back to its caller, whose pc is already behind the call
Return ==
  /\ frames' = Front(frames)
  /\ status' = IF fp = 1 THEN "end" ELSE status

Init ==
  /\ prog \in Programs
  /\ code = [fn \in {"main", "f"} |-> CompileFunction(prog[fn])]
  /\ frames = <<[fn |-> "main", pc |-> 0, i |-> 0]>>
  /\ tries = <<>> /\ fins = <<>> /\ pend = FALSE
  /\ err = [type |-> 0, raw |-> FALSE]
  /\ unwind = [to |-> 0, pc |-> 0]
  /\ out = <<>>
  /\ status = "run"

ExecPrint ==
  /\ Running("PRINT")
  /\ out' = Append(out, ins.a)
  /\ Next1
  /\ UNCHANGED <<prog, code, tries, fins, pend, err, unwind, status>>

\* JMP, and a loop's own instructions: i counts its rounds
ExecJump ==
  /\ \/ Running("JMP") /\ Go(ins.a)
     \/ Running("INIT") /\ frames' = [frames EXCEPT ![fp].pc = @ + 1, ![fp].i = 0]
     \/ Running("UPDATE") /\ frames' = [frames EXCEPT ![fp].pc = @ + 1, ![fp].i = @ + 1]
     \/ Running("JMP_IF_FALSE") /\ Go(IF top.i < Rounds THEN top.pc + 1 ELSE ins.a)
  /\ UNCHANGED <<prog, code, tries, fins, pend, err, unwind, out, status>>

ExecCall ==
  /\ Running("CALL")
  /\ frames' = Append([frames EXCEPT ![fp].pc = @ + 1], [fn |-> "f", pc |-> 0, i |-> 0])
  /\ UNCHANGED <<prog, code, tries, fins, pend, err, unwind, out, status>>

ExecTry ==
  /\ Running("TRY")
  /\ tries' = <<[frame |-> fp, catch |-> ins.a, fin |-> ins.b, caught |-> FALSE]>> \o tries
  /\ Next1
  /\ UNCHANGED <<prog, code, fins, pend, err, unwind, out, status>>

ExecEndTry ==
  /\ Running("ENDTRY")
  /\ tries' = Pop(tries)
  /\ Next1
  /\ UNCHANGED <<prog, code, fins, pend, err, unwind, out, status>>

\* a clause of type 0 or of the error's type falls through to its body
ExecCatchMatch ==
  /\ Running("CATCH_MATCH")
  /\ Go(IF ins.a \in {0, err.type} THEN top.pc + 1 ELSE ins.b)
  /\ UNCHANGED <<prog, code, tries, fins, pend, err, unwind, out, status>>

\* GET_ERR and the store into the clause's variable
ExecGetErr ==
  /\ Running("GET_ERR")
  /\ Next1
  /\ UNCHANGED <<prog, code, tries, fins, pend, err, unwind, out, status>>

ExecFinPush ==
  /\ Running("FIN_PUSH")
  /\ fins' = <<[levels |-> ins.a, target |-> ins.b]>> \o fins
  /\ Next1
  /\ UNCHANGED <<prog, code, tries, pend, err, unwind, out, status>>

ExecPendReturn ==
  /\ Running("PEND_RETURN")
  /\ pend' = TRUE
  /\ Go(ins.b)
  /\ UNCHANGED <<prog, code, tries, fins, err, unwind, out, status>>

\* mutant: return keeps the frame's handlers
ReturnKeepsHandlers ==
  /\ Running("RETURN_NIL")
  /\ Return
  /\ UNCHANGED <<prog, code, tries, fins, pend, err, unwind, out>>

\* vm_except_leave_frame, then the frame ends
ExecReturnNil ==
  /\ Running("RETURN_NIL")
  /\ tries' = LET mine == {i \in 1..Len(tries) : \A j \in 1..i : tries[j].frame = fp}
              IN SubSeq(tries, Cardinality(mine) + 1, Len(tries))
  /\ Return
  /\ UNCHANGED <<prog, code, fins, pend, err, unwind, out>>

\* the finally that runs before the error goes further out: that of a try
\* whose clause is running, or of one without a clause; a throw behind the
\* entry of the latter's finally counts as thrown by it
RunsFinally(ts) ==
  /\ FinOnTop(ts)
  /\ \/ Head(ts).caught
     \/ Head(ts).catch = 0 /\ top.pc + 1 <= Head(ts).fin

\* vm_except_throw_value, with try stack ts and completion stack fs
ThrowValue(v, ts, fs) ==
  LET passed  == IF FinOnTop(ts) /\ Head(ts).catch = 0 THEN Tail(ts) ELSE ts
      takers  == {i \in 1..Len(passed) : passed[i].catch # 0 /\ ~passed[i].caught}
      left    == SubSeq(passed, Min(takers), Len(passed))
  IN IF RunsFinally(ts)
     THEN /\ fins' = <<[levels |-> 0, target |-> 0]>> \o fs
          /\ err' = v
          /\ Go(Head(ts).fin)
          /\ tries' = ts
          /\ UNCHANGED <<unwind, status>>
     ELSE /\ fins' = fs
          /\ IF takers = {}
             THEN /\ status' = "exit"
                  /\ tries' = passed
                  /\ UNCHANGED <<frames, err, unwind>>
             ELSE IF Head(left).frame = fp
             THEN /\ tries' = [left EXCEPT ![1].caught = TRUE]
                  /\ err' = v
                  /\ Go(Head(left).catch)
                  /\ UNCHANGED <<unwind, status>>
             ELSE /\ tries' = left
                  /\ err' = v
                  /\ unwind' = [to |-> Head(left).frame, pc |-> Head(left).catch]
                  /\ UNCHANGED <<frames, status>>

\* throw expr; operand 0 throws what GET_ERR pushes
ExecThrow ==
  /\ Running("THROW")
  /\ ThrowValue(IF ins.a = 0 THEN err ELSE [type |-> ins.a, raw |-> TRUE], tries, fins)
  /\ UNCHANGED <<prog, code, pend, out>>

\* mutant: a pending return looks for no further finally
FinishReturnAtOnce ==
  /\ Running("FINISH") /\ pend
  /\ tries' = Pop(tries)
  /\ Return /\ pend' = FALSE
  /\ UNCHANGED <<prog, code, fins, err, unwind, out>>

\* end of a finally for a pending return: the next finally of the frame, or out
FinishReturn ==
  /\ Running("FINISH") /\ pend
  /\ tries' = Pop(tries)
  /\ IF FinOnTop(Pop(tries)) THEN Go(Head(Pop(tries)).fin) /\ UNCHANGED <<pend, status>>
                             ELSE Return /\ pend' = FALSE
  /\ UNCHANGED <<prog, code, fins, err, unwind, out>>

\* end of a finally an error goes through: thrown again, as the wrapped error
FinishRethrow ==
  /\ Running("FINISH") /\ ~pend
  /\ fins # <<>> /\ Head(fins).levels = 0
  /\ ThrowValue([err EXCEPT !.raw = FALSE], Pop(tries), Tail(fins))
  /\ UNCHANGED <<prog, code, pend, out>>

\* end of a finally that a break or continue leaves: the next one, or the target
FinishLeave ==
  /\ Running("FINISH") /\ ~pend
  /\ fins # <<>> /\ Head(fins).levels > 0
  /\ tries' = Pop(tries)
  /\ LET todo == Head(fins).levels - 1
     IN IF todo > 0 /\ FinOnTop(Pop(tries))
        THEN fins' = [fins EXCEPT ![1].levels = todo] /\ Go(Head(Pop(tries)).fin)
        ELSE fins' = Tail(fins) /\ Go(Head(fins).target)
  /\ UNCHANGED <<prog, code, pend, err, unwind, out, status>>

\* end of a finally reached without any of these
FinishNormally ==
  /\ Running("FINISH") /\ ~pend /\ fins = <<>>
  /\ Next1
  /\ UNCHANGED <<prog, code, tries, fins, pend, err, unwind, out, status>>

\* vm_except_check_unwind at the bottom of each frame's loop
UnwindFrame ==
  /\ status = "run" /\ unwind.to # 0
  /\ IF unwind.to = fp
     THEN /\ Go(unwind.pc)
          /\ tries' = IF tries # <<>> /\ Head(tries).frame = fp
                        THEN [tries EXCEPT ![1].caught = TRUE] ELSE tries
          /\ unwind' = [to |-> 0, pc |-> 0]
          /\ UNCHANGED status
     ELSE /\ frames' = Front(frames)
          /\ status' = IF fp = 1 THEN "lost" ELSE status
          /\ UNCHANGED <<tries, unwind>>
  /\ UNCHANGED <<prog, code, fins, pend, err, out>>

Next ==
  \/ ExecPrint \/ ExecJump \/ ExecCall \/ ExecTry \/ ExecEndTry \/ ExecCatchMatch \/ ExecGetErr
  \/ ExecFinPush \/ ExecPendReturn \/ ExecReturnNil \/ ExecThrow
  \/ FinishReturn \/ FinishRethrow \/ FinishLeave \/ FinishNormally
  \/ UnwindFrame

Spec == Init /\ [][Next]_vars

-----------------------------------------------------------------------------
(* What the program means: the marks it leaves and how it ends.            *)

Does(marks, how, type) == [marks |-> marks, how |-> how, type |-> type]

RECURSIVE Means(_, _, _)

\* one after the other, as long as each ends normally
MeansAll(ss, p, d) ==
  FoldLeft(LAMBDA r, s : IF r.how # "ok" THEN r
                         ELSE LET n == Means(s, p, d) IN [n EXCEPT !.marks = r.marks \o @],
           Does(<<>>, "ok", 0), ss)

MeansFunction(f, p) ==
  LET r == MeansAll(<<f.body>>, p, f.defer)
  IN IF r.how = "return" THEN r
     ELSE [r EXCEPT !.marks = @ \o MeansAll(f.defer, p, <<>>).marks]

\* a break ends the loop, a continue only the round
MeansLoop(s, p, d) ==
  LET round(r, k) == IF r.how # "ok" THEN r
                     ELSE LET n == MeansAll(s.body, p, d)
                          IN [n EXCEPT !.marks = r.marks \o @,
                                       !.how = IF @ = "continue" THEN "ok" ELSE @]
      all == FoldLeft(round, Does(<<>>, "ok", 0), [k \in 1..Rounds |-> k])
  IN IF all.how = "break" THEN [all EXCEPT !.how = "ok"] ELSE all

\* whatever happens in the body and the clause, the finally runs, once
MeansTry(s, p, d) ==
  LET body  == MeansAll(s.body, p, d)
      taken == body.how = "throw" /\ s.catch # <<>> /\ s.n \in {0, body.type}
      clause == MeansAll(s.catch, p, d)
      both  == IF taken THEN [clause EXCEPT !.marks = body.marks \o @] ELSE body
      final == MeansAll(s.fin, p, d)
  IN IF final.how = "ok" THEN [both EXCEPT !.marks = @ \o final.marks]
                         ELSE [final EXCEPT !.marks = both.marks \o @]

MeansCall(p) ==
  LET r == MeansFunction(p.f, p)
  IN IF r.how = "throw" THEN r ELSE [r EXCEPT !.how = "ok"]

Means(s, p, d) ==
  CASE s.op = "act"    -> Does(<<s.n>>, "ok", 0)
    [] s.op = "throw"  -> Does(<<>>, "throw", s.n)
    [] s.op = "call"   -> MeansCall(p)
    [] s.op = "return" -> Does(MeansAll(d, p, <<>>).marks, "return", 0)
    [] s.op \in {"break", "continue"} -> Does(<<>>, s.op, 0)
    [] s.op = "block"  -> MeansAll(s.body, p, d)
    [] s.op = "loop"   -> MeansLoop(s, p, d)
    [] s.op = "try"    -> MeansTry(s, p, d)

Meaning == MeansFunction(prog.main, prog)

-----------------------------------------------------------------------------
(* The programs the machine is right about.  Around a statement, from the  *)
(* inside out, stand the tries it is in: "taker" (its clause not entered;  *)
(* no finally), "both" (the same, with a finally), "final" (only a finally *)
(* is left to run) and "used" (clause entered, no finally).                *)

HasFinally(kind) == kind \in {"both", "final"}

\* thrown from another frame: no finally is passed on the way to the taker
CrossesSafely(around) ==
  LET takers == {i \in 1..Len(around) : around[i] \in {"taker", "both"}}
  IN \A i \in 1..Len(around) :
       around[i] = "final" => \E t \in takers : t < i

RECURSIVE ThrowsSafely(_)
ThrowsSafely(around) ==
  \/ around = <<>>
  \/ Head(around) \in {"taker", "both"}
  \/ Head(around) = "final" /\ ThrowsSafely(Tail(around))
  \/ Head(around) = "used" /\ CrossesSafely(Tail(around))

ReturnsSafely(around) ==
  \/ \A i \in 1..Len(around) : HasFinally(around[i])
  \/ \A i \in 1..Len(around) : ~HasFinally(around[i])

LeavesSafely(around) == \A i \in 1..Len(around) : HasFinally(around[i])

\* around.frame: all tries of the function; around.loop: those inside the loop
Inside(kind, around) ==
  [frame |-> <<kind>> \o around.frame, loop |-> <<kind>> \o around.loop]

RECURSIVE Safe(_, _, _)
Safe(s, around, p) ==
  LET inBody   == IF s.catch = <<>> THEN "final" ELSE IF s.fin = <<>> THEN "taker" ELSE "both"
      inClause == IF s.fin = <<>> THEN "used" ELSE "final"
      every(ss, a) == \A i \in 1..Len(ss) : Safe(ss[i], a, p)
  IN CASE s.op = "act"    -> TRUE
       [] s.op = "throw"  -> ThrowsSafely(around.frame)
       [] s.op = "call"   -> MeansFunction(p.f, p).how = "throw" => CrossesSafely(around.frame)
       [] s.op = "return" -> ReturnsSafely(around.frame)
       [] s.op \in {"break", "continue"} -> LeavesSafely(around.loop)
       [] s.op = "block"  -> every(s.body, around)
       [] s.op = "loop"   -> every(s.body, [around EXCEPT !.loop = <<>>])
       [] s.op = "try"    ->
            /\ every(s.body, Inside(inBody, around))
            /\ every(s.catch, Inside(inClause, around))
            /\ s.catch # <<>> /\ s.n # 0 =>
                 ThrowsSafely(IF s.fin = <<>> THEN around.frame
                              ELSE <<"final">> \o around.frame)
            /\ \A i \in 1..Len(s.fin) : s.fin[i].op = "act"

SafeFunction(f, p) ==
  Safe(f.body, [frame |-> IF f.defer = <<>> THEN <<>> ELSE <<"taker">>, loop |-> <<>>], p)

SafeProgram(p) == SafeFunction(p.main, p) /\ SafeFunction(p.f, p)

-----------------------------------------------------------------------------
(* Properties *)

TypeOK ==
  /\ status \in {"run", "end", "exit", "lost"}
  /\ pend \in BOOLEAN
  /\ \A i \in 1..Len(frames) : frames[i].fn \in {"main", "f"} /\ frames[i].pc \in Nat
  /\ \A i \in 1..Len(tries) : tries[i].catch \in Nat /\ tries[i].fin \in Nat
  /\ \A i \in 1..Len(fins) : fins[i].levels \in Nat

\* A safe program that has ended did what it means: every finally of every
\* try it entered ran once and in its place, whichever way control left the
\* try, each error went to the clause that takes it, and the program is
\* stopped by an error only if nothing takes it (vm_except_throw_value,
\* vm_exec_finish and the code AST_TRY, AST_RETURN, AST_BREAK emit).
RunsAsWritten ==
  SafeProgram(prog) /\ status # "run" =>
    /\ out = Meaning.marks
    /\ status = IF Meaning.how = "throw" THEN "exit" ELSE "end"

\* In a safe program a registered handler belongs to a frame that is alive,
\* inner frames' handlers above outer ones', and a program that ends leaves
\* no handler, completion or return behind for the code that runs next on
\* the thread (vm_except_leave_frame, pop_current_try).
HandlersAlive ==
  SafeProgram(prog) =>
    /\ status = "run" =>
         /\ \A i \in 1..Len(tries) : tries[i].frame <= Len(frames)
         /\ \A i, j \in 1..Len(tries) : i < j => tries[i].frame >= tries[j].frame
    /\ status = "end" => tries = <<>> /\ fins = <<>> /\ ~pend

\* A finally is executed whichever way the try is left (the comment on
\* basic_syntax_test2.lm:199, for any program): its mark is in the output as
\* often as the program's meaning has it.  Marks divisible by 5 are finallys'.
FinallyRuns ==
  status # "run" =>
    LET finals(marks) == SelectSeq(marks, LAMBDA m : m % 5 = 0)
    IN finals(out) = finals(Meaning.marks)

\* When a frame has returned, none of its handlers is left to take an error
\* of the code that runs after it (the comment on vm_except_leave_frame, for
\* any program).
NoDeadHandler ==
  status = "run" => \A i \in 1..Len(tries) : tries[i].frame <= Len(frames)

=============================================================================
