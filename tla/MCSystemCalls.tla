--------------------------- MODULE MCSystemCalls ---------------------------
EXTENDS SystemCalls

Buffer(bytes, mapped) == [kernel |-> FALSE, bytes |-> bytes, mapped |-> mapped]

(* Two chunks, all, some or none of which is mapped; names with and        *)
(* without a terminator; an empty buffer; one in the kernel                *)
MCBuffers ==
    {Buffer(<<"a", "CR", "b">>, n) : n \in 0..3}
    \union {Buffer(<<"e", "NUL">>, 2), Buffer(<<"e", "t", "h", "0", "b">>, 5), Buffer(<< >>, 0),
            [kernel |-> TRUE, bytes |-> <<"e", "NUL">>, mapped |-> 2]}
MCDirectives ==
    {<<"d">>, <<"u">>, <<"x">>, <<"l", "d">>, <<"l", "u">>, <<"4", "d">>, <<"0", "4", "l", "X">>}
(* Zero, one and two digits, and the ends of every type, signed or not     *)
MCNumbers ==
    {0, 9, 10} \union UNION {{m \div 2 - 1, m \div 2, m - 1} : m \in {INTMOD, LONGMOD}}
MCStrings == {<<"o">>}
MCDescs == -1..2
MCNAMESPACE == {<<"e">>, <<"e", "t">>}
=============================================================================
