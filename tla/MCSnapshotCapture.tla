-------------------------- MODULE MCSnapshotCapture --------------------------
(* SnapshotCapture of a process with six mappings, one more than an image    *)
(* has room for: data, text, the managed region, a page of the kernel's, the *)
(* heap of a library and the stack.                                          *)
EXTENDS SnapshotCapture

Line(size, perms, name, managed) ==
    [size |-> size, perms |-> perms, name |-> name, managed |-> managed]

MCMaps ==
    << Line(2, {"r", "w"}, "file", FALSE),
       Line(1, {"r", "x"}, "file", FALSE),
       Line(2, {"r", "w"}, "", TRUE),
       Line(1, {"r"}, "[vvar]", FALSE),
       Line(1, {"r"}, "", FALSE),
       Line(1, {"r", "w"}, "[stack]", FALSE) >>

=============================================================================
