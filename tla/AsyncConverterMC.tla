-------------------------- MODULE AsyncConverterMC --------------------------
EXTENDS AsyncConverter
MCEps == -1..1
=============================================================================
