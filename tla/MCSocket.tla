------------------------------ MODULE MCSocket ------------------------------
(* Responses with every way to delimit a body; a malformed header line, a    *)
(* line that outgrows the buffers and a malformed chunk.                     *)
EXTENDS Socket

MCResponses ==
    {[units |-> <<"part", "eol", "part", "part", "eol", "blank", "b", "b">>,
      clen |-> 2, chunked |-> FALSE],
     [units |-> <<"eol", "eol", "blank", "k2", "b", "b", "k1", "b", "k0">>,
      clen |-> -1, chunked |-> TRUE],
     [units |-> <<"eol", "eol", "blank">>, clen |-> 0, chunked |-> FALSE],
     [units |-> <<"eol", "eol", "blank", "b">>, clen |-> -1, chunked |-> FALSE],
     [units |-> <<"eol", "part", "bad">>, clen |-> -1, chunked |-> FALSE],
     [units |-> <<"part", "part", "part", "part", "eol">>, clen |-> -1, chunked |-> FALSE],
     [units |-> <<"eol", "blank", "b">>, clen |-> -1, chunked |-> TRUE]}
=============================================================================
