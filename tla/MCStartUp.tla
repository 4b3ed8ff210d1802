------------------------------ MODULE MCStartUp ------------------------------
(* Constants of the run of StartUp: two weak classifiers that must find    *)
(* their bit in neighbouring cells.  In an image of two by two cells there *)
(* are windows inside, one that runs on into the next row, and one that    *)
(* reads behind the last cell.                                             *)
EXTENDS StartUp

Pair == << [x |-> 0, y |-> 0, h |-> {0}, w |-> 1],
           [x |-> 1, y |-> 0, h |-> {0}, w |-> 1] >>
=============================================================================
