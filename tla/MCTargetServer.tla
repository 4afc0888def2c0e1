--------------------------- MODULE MCTargetServer ---------------------------
(* Instances of TargetServer: every handler alone, and those that share    *)
(* something with another in pairs.                                        *)
EXTENDS TargetServer, TLC

Alone == {<<name>> : name \in DOMAIN Scripts}
Sharing ==
    {<<"DataSetYml", "DataSetYml">>, <<"DataSetDotenv", "DataSetDotenv">>,
     <<"DataSetYml", "DataSetDotenv">>, <<"DataSetYml", "ConfWrite">>,
     <<"DataSetDotenv", "ConfDelete">>, <<"ConfWrite", "Write">>,
     <<"DataSetYml", "DataGet">>, <<"DataSetYml", "Write">>, <<"ConfWrite", "ConfWrite">>,
     <<"ConfWrite", "ConfDelete">>, <<"ConfDelete", "ConfRead">>, <<"Write", "Write">>,
     <<"Copy", "Write">>, <<"Read", "Read">>,
     <<"ServerHandshake", "ServerHandshake">>, <<"ServerHandshake", "ForceRefresh">>,
     <<"ServerHandshake", "InfoOrClone">>, <<"MultiHandshake", "MultiHandshake">>}
AllLoads == Alone \cup Sharing
\* A package wrapped over three lines after the header takes one line more than MaxLines.
ASSUME ParsersChecked == ParsersRight /\ ParsersRightUpTo(4)
TwoFDBCLI == {<<"FDBCLI", "FDBCLI">>}
=============================================================================
