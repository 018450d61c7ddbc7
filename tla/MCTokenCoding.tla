--------------------------- MODULE MCTokenCoding ---------------------------
(* Images and scan scripts for TokenCoding. *)
EXTENDS TokenCoding

S(comps, Ss, Se, Ah, Al) == [comps |-> comps, Ss |-> Ss, Se |-> Se, Ah |-> Ah, Al |-> Al]
B(dc, a, b, c, d) == [k \in 0 .. K |-> <<dc, a, b, c, d>>[k + 1]]

\* Blocks: empty, full, zero runs of every length, coefficients that appear in the first,
\* second and third scan, and negative ones.
Blocks == {B(0, 0, 0, 0, 0), B(-3, 0, 0, 0, 1), B(5, 3, -4, 5, 7), B(1, 2, 0, 0, -1),
           B(-4, 0, 4, 0, 0), B(2, 6, 1, 2, 4), B(1, 1, -1, 1, 1)}

\* A grayscale image of two rows of three blocks, from three blocks in turn, and a
\* subsampled one whose interleaved scans have a block beyond the edge.
Gray(f) == <<[h |-> 1, w |-> 3, rows |-> 2,
              blocks |-> <<f[1], f[2], f[3], f[2], f[3], f[3]>>]>>
Color(f) == <<[h |-> 2, w |-> 3, rows |-> 1, blocks |-> <<f[1], f[2], f[3]>>],
              [h |-> 1, w |-> 2, rows |-> 1, blocks |-> <<f[3], f[1]>>]>>
Pictures == UNION {{Gray(f), Color(f)} : f \in [1 .. 3 -> Blocks]}

\* No restarts, after every or every second MCU, after every row.
RestartKinds == {[interval |-> 0, rows |-> 0], [interval |-> 1, rows |-> 0],
                 [interval |-> 2, rows |-> 0], [interval |-> 0, rows |-> 1]}

Default(n) == {SetDefaultScanScript(l, i, n) : l \in 0 .. 2, i \in BOOLEAN}
\* DC refinement, and bands that are refined in another division than they were begun.
Custom == {<<S(<<1>>, 0, 0, 0, 1), S(<<1>>, 1, 4, 0, 2), S(<<1>>, 1, 4, 2, 1),
             S(<<1>>, 1, 2, 1, 0), S(<<1>>, 3, 4, 1, 0), S(<<1>>, 0, 0, 1, 0)>>,
           <<S(<<1>>, 0, 0, 0, 0), S(<<1>>, 0, 4, 0, 0)>>,
           <<S(<<1, 2>>, 0, 0, 0, 2), S(<<1>>, 1, 4, 0, 1), S(<<2>>, 1, 4, 0, 0),
             S(<<1, 2>>, 0, 0, 2, 1), S(<<1>>, 1, 4, 1, 0), S(<<1, 2>>, 0, 0, 1, 0)>>,
           <<S(<<1>>, 0, 4, 0, 0), S(<<2>>, 0, 4, 0, 0)>>,
           <<S(<<1>>, 1, 4, 0, 0), S(<<1>>, 0, 0, 0, 0)>>}
AllScripts == Default(1) \cup Default(2) \cup Custom

\* Bands with their own number of refinements that end in a common one.
Uneven == {<<S(<<1>>, 0, 0, 0, 0), S(<<1>>, 1, 2, 0, 1), S(<<1>>, 3, 4, 0, 2),
             S(<<1>>, 3, 4, 2, 1), S(<<1>>, 1, 4, 1, 0)>>}
=============================================================================
