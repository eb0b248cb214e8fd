------------------------------ MODULE MCUnwind ------------------------------
EXTENDS Unwind

Function(defer, body) == [defer |-> defer, body |-> body]
Simple(m) == {Act(m), Throw(1), Throw(2), Plainly("return"), Plainly("call")}
Leaves    == {Plainly("break"), Plainly("continue")}

\* every try around a body, with clauses for all errors or for type 1
Tries(bodies, clauses, m) ==
  {Try(b, 0, <<>>, <<Act(m)>>) : b \in bodies}
    \cup {Try(b, t, <<c>>, f) : b \in bodies, t \in {0, 1}, c \in clauses, f \in {<<>>, <<Act(m)>>}}

Inner == Tries(Simple(11), {Act(12), Throw(1), Plainly("return")}, 10)
Outer ==
  Tries(Inner, {Act(22), Throw(2)}, 20)
    \cup Tries({Try(s, 0, <<>>, <<Act(20)>>) : s \in Inner}, {Act(82)}, 80) \cup Tries({Throw(1)}, Inner, 20)
InLoop ==
  Tries(Leaves \cup {Plainly("return"), Throw(1)}, {Act(32)} \cup Leaves, 30)
Loops ==
  LET nested == Tries({Try(b, 0, <<>>, <<Act(30)>>) : b \in Leaves}, {Act(42)}, 40)
  IN {Loop(Block(<<Act(31), b, Act(33)>>)) : b \in InLoop \cup nested}

MCMains ==
  {Function(<<>>, Block(<<s, Act(91)>>)) :
     s \in Outer \cup Loops \cup {Try(l, 0, <<Act(52)>>, <<Act(50)>>) : l \in Loops}}
MCCallees ==
  {Function(d, Block(<<s, Act(63)>>)) :
     d \in {<<>>, <<Act(61)>>},
     s \in {Act(62), Throw(1), Plainly("return"),
            Try(Plainly("return"), 0, <<>>, <<Act(60)>>),
            Try(Try(Plainly("return"), 0, <<>>, <<Act(60)>>), 0, <<>>, <<Act(65)>>),
            Try(Throw(2), 0, <<>>, <<Act(60)>>),
            Try(Throw(1), 0, <<Throw(2)>>, <<Act(60)>>)}}

MCAll == [main : MCMains, f : MCCallees]
MCPrograms == {p \in MCAll : SafeProgram(p)}
=============================================================================
