--------------------------- MODULE MCBatchImport ---------------------------
\* Three sessions and three uploads to name, as many as the runs need.
EXTENDS BatchImport, TLC
CONSTANTS s1, s2, s3, u1, u2, u3, p1, p2
MCSessions == {s1, s2, s3}
MCUploads == {u1, u2, u3}
MCParts == {p1, p2}
=============================================================================
