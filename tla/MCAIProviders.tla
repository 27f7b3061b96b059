---------------------------- MODULE MCAIProviders ----------------------------
EXTENDS AIProviders
\* the two Flash-Lite models of TRADING_MODELS
Lites == <<"lite35", "lite31">>
=============================================================================
