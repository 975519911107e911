---------------------------- MODULE MCHandshake -----------------------------
(* Model-checking instance of Handshake.  Bytes 65..67 stand for letters,  *)
(* 78 for the native plugin's name.                                        *)
EXTENDS Handshake

\* Protocol 4.1 with every combination of the layout flags, and one client
\* without protocol 4.1.
MCCapSets ==
    {{"Protocol41"} \cup fs :
        fs \in SUBSET {"ConnectWithDB", "SecureConnection", "PluginAuth",
                       "PluginAuthLenenc"}}
    \cup {{"SecureConnection", "PluginAuth"}}

MCUsers == {<<>>, <<65>>}
MCAuths == {<<>>, <<65>>, <<0, 65>>}
MCDbs == {<<>>, <<66>>}
MCPlugins == {<<67>>}
MCNativeName == <<78>>
=============================================================================
