--------------------------- MODULE MCChunkUploads ---------------------------
\* Model checking ChunkUploads: the recorder's tab and a second one.
EXTENDS ChunkUploads
=============================================================================
