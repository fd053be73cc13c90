--------------------------- MODULE MCStructLayout ---------------------------
(* Classes as clang lays them out.  V and W are polymorphic classes with   *)
(* the same fields and tail padding, X, Y and Z derive from them, U from X *)
(* as a whole, T from two classes so that V is there twice; a renamed base *)
(* type, a class called base, a member struct, and the class with the name *)
(* that the search makes an exception for, which begins like V does.       *)
EXTENDS Naturals

Class(s) == [stem |-> s, base |-> FALSE, number |-> 0]
Base(s) == [stem |-> s, base |-> TRUE, number |-> 0]
Renamed(s) == [stem |-> s, base |-> TRUE, number |-> 118]

MCABIInfo == Class("class.clang::CodeGen::ABIInfo")

MCNameOf ==
    [V |-> Class("class.V"), Vb |-> Base("class.V"),
     W |-> Class("class.W"), Wb |-> Base("class.W"),
     X |-> Class("class.X"), Y |-> Class("class.Y"), Yb |-> Base("class.Y"),
     Z |-> Class("class.Z"), U |-> Class("class.U"),
     K |-> Class("class.K"), Kb |-> Renamed("class.K"), L |-> Class("class.L"),
     B |-> Base("class"), H |-> Class("class.H"),
     P |-> [stem |-> "class.Parser::Action", base |-> FALSE, number |-> 118],
     T |-> Class("class.T"),
     A |-> MCABIInfo, D |-> Class("class.D")]

MCElements ==
    [V |-> <<"vptr", "i32", "pad">>, Vb |-> <<"vptr", "i32">>,
     W |-> <<"vptr", "i32", "pad">>, Wb |-> <<"vptr", "i32">>,
     X |-> <<"Vb", "i32">>,
     Y |-> <<"Vb", "pad", "Wb", "pad">>, Yb |-> <<"Vb", "pad", "Wb">>,
     Z |-> <<"Yb", "i8">>, U |-> <<"X", "B">>,
     K |-> <<"vptr", "i8", "pad">>, Kb |-> <<"vptr", "i8">>, L |-> <<"Kb", "i32">>,
     B |-> <<"i32">>, H |-> <<"B", "U", "L", "X">>,
     T |-> <<"Z", "U", "i32">>,
     P |-> <<"X">>, A |-> <<"vptr", "i32", "i8">>, D |-> <<"Vb", "A", "Z">>]

MCHeight ==
    [V |-> 0, Vb |-> 0, W |-> 0, Wb |-> 0, K |-> 0, Kb |-> 0, B |-> 0, A |-> 0,
     X |-> 1, Y |-> 1, Yb |-> 1, L |-> 1, U |-> 2, Z |-> 2, P |-> 2, H |-> 3, T |-> 3,
     D |-> 3]

MCStructType == DOMAIN MCNameOf
MCScalar == {"vptr", "i32", "i8", "pad"}
=============================================================================
