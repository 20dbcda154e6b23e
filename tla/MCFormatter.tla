---------------------------- MODULE MCFormatter ----------------------------
(***************************************************************************)
(* An instance of BinaryFormatter: a person, as in src/tests/mocks, and a  *)
(* team that has one, or the same one twice, with a read-only property and *)
(* one of a type that is not supported.                                    *)
(***************************************************************************)
EXTENDS BinaryFormatter, TLC

Property(name, type, writable) == [name |-> name, type |-> type, writable |-> writable]
Person == <<80>>
Team == <<84, 109>>
MCClasses ==
  Person :> <<Property(<<97>>, "STRING", TRUE), Property(<<98>>, "STRING", TRUE),
              Property(<<99>>, "DOUBLE", TRUE)>>
  @@ Team :> <<Property(<<105, 100>>, "ULONG", FALSE), Property(<<108>>, "OBJECT", TRUE),
               Property(<<102>>, "FLAGS", TRUE), Property([i \in 1..254 |-> 110], "INT", TRUE),
               Property(<<100>>, "OBJECT", TRUE)>>

Strings == {NullString} \cup {Scalar("STRING", s) : s \in {<<>>, <<65>>, <<65, 66>>}}
Reals == {0, 120, 123, 127, Tiny}
Numbers == {[i \in 1..8 |-> 0], [i \in 1..8 |-> i], [i \in 1..8 |-> 256 - i]}
Scalars ==
  {Scalar("BOOLEAN", <<b>>) : b \in {0, 1}}
  \cup {Scalar(t, SubSeq(n, 1, Width[t])) : t \in DOMAIN Width \ {"BOOLEAN"}, n \in Numbers}
  \cup {Scalar(t, <<r>>) : t \in Real, r \in Reals}
Flags == Scalar("FLAGS", <<1>>)

Record(class, props) == [class |-> class, props |-> props]
Persons == {Record(Person, <<f, Scalar("STRING", <<66>>), Scalar("DOUBLE", <<r>>)>>) : f \in Strings, r \in Reals}
Id == Scalar("ULONG", [i \in 1..8 |-> i])
TeamOf(leader, n, deputy) ==
  Record(Team, <<Id, Object(leader), Flags, Scalar("INT", <<0, 0, n, 0>>), Object(deputy)>>)

With(v, objects) == [value |-> v, heap |-> objects]
MCGiven ==
  {With(v, <<>>) : v \in Strings \cup Scalars \cup {Flags, NullObject}}
  \cup {With(Object(1), <<p>>) : p \in Persons}
  \cup {With(Object(1), <<TeamOf(2, 1, 2), p>>) :
           p \in {q \in Persons : q.props[1] = NullString /\ q.props[3].bytes[1] \in {127, Tiny}}}
  \cup {With(Object(1), <<TeamOf(0, 1, 0)>>), With(Object(1), <<TeamOf(0, 1, 2), TeamOf(0, 2, 0)>>)}
MCGarbage == {-2, -1, 0, 3}
=============================================================================
