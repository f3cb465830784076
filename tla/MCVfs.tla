------------------------------- MODULE MCVfs --------------------------------
(* Vfs for TLC: paths of up to three components over six names. *)
EXTENDS Vfs, TLC

CONSTANTS t1, t2

MCThreads == {t1, t2}

MCComponents == {".", "..", "initramfs", "f", "m", "p64", "p65"}

MCNames == MCComponents \cup {"n", "d/f", "p255", "p256"}

\* Names of each length modulo 4, and at both sides of the sizes of name and of
\* filename, which they fill with the zero behind them
MCstrlen == [n \in MCNames |->
                CASE n \in {".", "f"} -> 1 [] n \in {"..", "m"} -> 2 [] n \in {"n", "d/f"} -> 3
                  [] n = "initramfs" -> 9 [] n = "p64" -> 64 [] n = "p65" -> 65
                  [] n = "p255" -> 255 [] n = "p256" -> 256]

MCPrefix == [n \in MCNames |-> IF MCstrlen[n] > 64 THEN "p64" ELSE n]

Path(abs, comps) == [abs |-> abs, comps |-> comps]

Entry(name, filesize) ==
    [name |-> name, namesize |-> MCstrlen[name] + 1, filesize |-> filesize]

\* What find lists, "." before the file, whose name just fits its node; one file
\* twice; a name that is cut to another; and too many files or a name that is too
\* long, with names and files of each length modulo 4 followed by another
MCArchives ==
    {<<Entry(".", 0), Entry("p64", 5)>>, <<Entry("f", 7), Entry("f", 3)>>,
     <<Entry("p255", 6), Entry("p64", 1)>>,
     <<Entry("d/f", 1), Entry("p256", 4), Entry("m", 6)>>,
     <<Entry("f", 7), Entry("m", 2), Entry("p64", 4), Entry("n", 1), Entry("p65", 8)>>}

\* The root, its entries, what lies below "m" and in the archive; relative
\* paths down and up; a name that is too long for tmpfs, and "."
MCPaths == (t1 :> {Path(TRUE, <<>>), Path(TRUE, <<"initramfs">>), Path(TRUE, <<"p64">>),
                   Path(TRUE, <<"initramfs", "f">>), Path(TRUE, <<"m">>),
                   Path(TRUE, <<"m", "m">>), Path(TRUE, <<"m", "f">>), Path(FALSE, <<"m">>),
                   Path(FALSE, <<"..", "m">>), Path(FALSE, <<"..", "initramfs", "m">>)})
        @@ (t2 :> {Path(TRUE, <<"m">>), Path(TRUE, <<"m", "m">>), Path(FALSE, <<"m">>),
                   Path(FALSE, <<".">>)})
=============================================================================
