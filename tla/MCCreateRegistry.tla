---------------------------- MODULE MCCreateRegistry ----------------------------
EXTENDS CreateRegistry, TLC

MCServerOf == "create" :> "local" @@ "icsp" :> "mirror"
=============================================================================
