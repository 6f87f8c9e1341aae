--------------------------- MODULE MC_PortManager ---------------------------
(* A small machine for the port manager: two of DEFAULT_PORTS, a          *)
(* sequential fallback of two ports, and .env.local files that exercise   *)
(* every branch of updateEnvPort.                                          *)
EXTENDS PortManager

MC_DefaultPorts == <<5173, 3000>>
MC_Args == {5173, 0, 70000, NaN}
MC_InitEnvFiles ==
    { NoEnvFile,
      << >>,
      << Line("PORT", "localhost", 5173), Line("HOST_DEV", "localhost", 5173) >>,
      << Line("DB_PORT", "localhost", 27017), Line("OTHER", "localhost", 0) >>,
      << Line("HOST_DEV", "other", 5173) >>,
      << Line("PORT", "localhost", -1) >> }
=============================================================================
