---------------------------- MODULE MCAlgorithms ----------------------------
(* The inputs of Algorithms for TLC. *)
EXTENDS Algorithms

\* a@b, A@B, <a@b> and a@c
Recipients == {<<97, At, 98>>, <<65, At, 66>>, <<Lt, 97, At, 98, Gt>>, <<97, At, 99>>}

\* Names: I i . / % 2, a control character and a rune above 0xFF.
Characters ==
    [name    |-> {73, 105, Dot, Slash, Percent, 50, 16, 256},
     body    |-> {CR, LF, Dot, 97},
     address |-> {Lt, Gt, At, 32, 97, 65},
     rcpts   |-> Recipients,
     login   |-> {Nil, <<>>, User, Secret},
     users   |-> [word : 1 .. 2, case : 1 .. 3],
     id      |-> {"_", "a", "0"},
     schema  |-> [name : {"username", "register", "bio", "phone"},
                  type : {"string", "number", "date"},
                  vis : {"", "private", "secret"}]]

Lengths ==
    [name |-> 5, body |-> 6, address |-> 5, rcpts |-> 3,
     login |-> 4, users |-> 3, id |-> 4, schema |-> 2]
=============================================================================
