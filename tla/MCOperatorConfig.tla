-------------------------- MODULE MCOperatorConfig --------------------------
EXTENDS OperatorConfig
=============================================================================
