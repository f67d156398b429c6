------------------------------ MODULE MCExampleApp ------------------------------
(* The example application with model values, see the configuration.            *)
EXTENDS ExampleApp
================================================================================
