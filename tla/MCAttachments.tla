---------------------------- MODULE MCAttachments ----------------------------
EXTENDS Attachments

CONSTANTS a1, a2, a3, w1, w2
=============================================================================
