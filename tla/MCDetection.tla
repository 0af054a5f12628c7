---------------------------- MODULE MCDetection ----------------------------
EXTENDS Detection
CONSTANTS u1, u2, u3
TwoFrames == {{u1}, {u1, u2}}
TwoContents == {{}, {u2, u3}}
=============================================================================
