-------------------------------- MODULE MCFs --------------------------------
EXTENDS Fs

CONSTANTS p1, p2

Abs(elems) == [abs |-> TRUE, elems |-> elems]
Rel(elems) == [abs |-> FALSE, elems |-> elems]

On(op, path) == [NoRequest EXCEPT !.op = op, !.path = path, !.writable = TRUE]
Link(path, new) == [On("link", path) EXCEPT !.new = new]
OnFile(op) == On(op, NoPath)

\* One file of one unit, as mkfs makes it in inode 2.
MCFiles == << <<"f", <<Unit("x", 2)>> >> >>

\* The image of mkfs, and a directory d in inode 3 that an earlier boot made.
MCImage == Made(IAlloc(Mkfs(MCFiles), "dir"), ROOTINO, "d", "dir", 3)

f == Abs(<<"f">>)
d == Abs(<<"d">>)
dg == Abs(<<"d", "g">>)

\* What both processes do, so that they meet in one inode.
Both == {On("open", f), OnFile("close")}

MCRequests ==
    p1 :> Both \cup {On("create", dg), On("unlink", f), On("unlink", d), On("mkdir", d),
                     OnFile("write")}
 @@ p2 :> Both \cup {On("unlink", dg), Link(f, dg), On("chdir", d), On("create", Rel(<<"g">>)),
                     On("mknod", dg), On("open", d), On("chdir", f), Link(d, f),
                     On("create", Abs(<<"f", "g">>)), OnFile("read"), OnFile("fstat")}
=============================================================================
