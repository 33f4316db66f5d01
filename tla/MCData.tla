------------------------------- MODULE MCData --------------------------------
(* Two operations that share tables and one without marks, and answers with *)
(* gaps, equal keys and records in odd places.                              *)
EXTENDS CycleRecords

Order == ObjectSchema("orders", <<Prop("id", TRUE, KeySchema("order")),
                                  Prop("total", TRUE, ScalarSchema(""))>>)
Group == ObjectSchema("groups", <<Prop("id", TRUE, KeySchema(""))>>)
User  == ObjectSchema("users", <<Prop("group", FALSE, Group),
                                 Prop("id", TRUE, KeySchema("user")),
                                 Prop("name", TRUE, ScalarSchema("")),
                                 Prop("orders", FALSE, ArraySchema(Order))>>)
Store == ObjectSchema("stores", <<Prop("id", TRUE, KeySchema("")),
                                  Prop("orders", FALSE, ArraySchema(Order)),
                                  Prop("owner", FALSE, Group)>>)
Tag   == ObjectSchema("", <<Prop("id", TRUE, KeySchema("tag")),
                            Prop("name", TRUE, ScalarSchema(""))>>)

\* A list of users below an unmarked object, a store, and a list without marks.
ThreeOperations ==
    <<[schema |-> ObjectSchema("", <<Prop("data", TRUE, ArraySchema(User))>>), table |-> <<>>],
      [schema |-> Store, table |-> <<>>],
      [schema |-> ArraySchema(Tag), table |-> <<"tags">>]>>

One == Scalar("1")
Two == Scalar("2")
Order1  == Object([id |-> One, total |-> Scalar("a")])
Order1b == Object([id |-> One, total |-> Null])
Order2  == Object([id |-> Two])
NoOrder == Object([total |-> Scalar("a")])
Group1  == Object([id |-> One])
NoGroup == Object([name |-> One])

User1    == Object([id |-> One, name |-> Scalar("a"), group |-> Group1,
                    orders |-> Array(<<Order1, Order2>>)])
User1b   == Object([id |-> One, name |-> Null, group |-> Null, orders |-> Array(<<Order2>>)])
User1c   == Object([id |-> One, group |-> NoGroup])
User2    == Object([id |-> Two, name |-> Scalar("b"), orders |-> Order1])
User2b   == Object([id |-> Two, name |-> Scalar("b"),
                    orders |-> Array(<<NoOrder, Order1b, Order1, Null>>)])
UserNull == Object([id |-> Null, name |-> Scalar("b"), orders |-> Array(<<Order1>>)])
NoUser   == Object([name |-> Scalar("c"), group |-> Group1, orders |-> Array(<<Order2>>)])

Users == {User1, User1b, User1c, User2, User2b, UserNull, NoUser, Scalar("x")}

Data(users) == Object([data |-> Array(users)])
UserAnswers == {Data(<<>>), Object([error |-> One]), Object([data |-> Null])}
               \cup {Data(<<u>>) : u \in Users}
               \cup {Data(<<u, v>>) : u \in {User1, User2}, v \in {User1b, User2b, UserNull}}
StoreAnswers ==
    {Object([id |-> One, orders |-> Array(<<Order1b, Order2>>), owner |-> Group1]),
     Object([id |-> Two, orders |-> Array(<<>>), owner |-> Object([id |-> Two])]),
     Object([orders |-> Array(<<Order1>>)]),
     Array(<<>>)}

TagAnswers == {Array(<<Group1>>), Array(<<Group1, NoGroup>>), Array(<<Object([other |-> One])>>),
               Null}

TwoPages == <<2, 1, 1>>

ThreeAnswers == <<UserAnswers, StoreAnswers, TagAnswers>>
=============================================================================
