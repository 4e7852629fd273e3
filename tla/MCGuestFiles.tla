----------------------------- MODULE MCGuestFiles -----------------------------
(* Values of the constants of GuestFiles: a disc of two files, adjacent in the image, and a
   name the title writes. *)
EXTENDS GuestFiles, TLC
Symmetry == Permutations(Threads)
MCNames == {"media", "xex", "save"}
MCGame == {"media", "xex"}
MCContent == [n \in MCGame |-> IF n = "media" THEN <<<<"media", 1>>, <<"media", 2>>>> ELSE <<<<"xex", 1>>>>]
MCImage == <<<<"pad", 0>>>> \o MCContent["media"] \o MCContent["xex"]
Entry(l, r, k, d, s, n) ==
  [left |-> l, right |-> r, key |-> k, dir |-> d, sector |-> s, length |-> n, valid |-> TRUE]
\* The root holds the subdirectory, a file cut off by the image's end and a link back.
MCDirectory ==
  [d \in {0, 1} |-> IF d = 0
     THEN [w \in 0..2 |-> CASE w = 0 -> Entry(1, 2, "sub", TRUE, 1, 1)
                            [] w = 1 -> Entry(0, 2, "media", FALSE, 1, 2)
                            [] w = 2 -> Entry(1, 0, "save", FALSE, 3, 4)]
     ELSE [w \in {0} |-> Entry(0, 0, "xex", FALSE, 3, 1)]]
=============================================================================
