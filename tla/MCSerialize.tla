---------------------------- MODULE MCSerialize ----------------------------
EXTENDS Serialize

PassKinds == {"alu", "store", "branch", "mepc", "instret", "fence", "ecall"}
MretKinds == {"mepc", "mret"}
=============================================================================
