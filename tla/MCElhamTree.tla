---------------------------- MODULE MCElhamTree ----------------------------
EXTENDS ElhamTree

O(w, d, f) == [width |-> w, depth |-> d, files |-> f]

\* The first three fit a word of 256.  Then -lock's own shape and the settings
\* at the edge: chains, no directories, no depth, no files.  The last four do not
\* fit: a number of files that comes to 0, directories that are on no level,
\* too many files and, like -hammer, a power of -width that comes to 0.
MCOption == {O(2, 3, 5), O(3, 2, 4), O(3, 4, 2), O(2, 2, 10), O(1, 4, 3), O(0, 2, 3), O(6, 0, 5),
             O(2, 2, 0), O(1, 3, 64), O(5, 4, 10), O(3, 3, 20), O(16, 4, 5)}
=============================================================================
