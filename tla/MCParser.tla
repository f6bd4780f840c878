------------------------------- MODULE MCParser -------------------------------
(***************************************************************************)
(* A message with two headers, names and values of two bytes that a read   *)
(* may cut, an empty value and a body within the limit; and one without    *)
(* headers whose body exceeds the limit.                                   *)
(***************************************************************************)
EXTENDS Parser

MCByte == {"a", "b"}

MCMessages ==
    { [line |-> <<"a">>, headers |-> << << <<"a", "b">>, <<>> >>, << <<"b">>, <<"a", "b">> >> >>,
       body |-> <<"a">>],
      [line |-> <<"a", "b">>, headers |-> <<>>, body |-> <<"a", "b", "a">>] }
=============================================================================
