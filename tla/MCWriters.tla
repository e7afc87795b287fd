----------------------------- MODULE MCWriters -----------------------------
EXTENDS NodeWriters

MCWriter == {process_batch, confirmation_height}

=============================================================================
