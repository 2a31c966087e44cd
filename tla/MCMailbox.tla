----------------------------- MODULE MCMailbox -----------------------------
EXTENDS Mailbox, TLC

MCSends    == {1, 2}
MCOneSend  == {1}
MCSymmetry == Permutations(Experts)

=============================================================================
