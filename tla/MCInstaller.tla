----------------------------- MODULE MCInstaller -----------------------------
\* Instances of Installer: the default target and a checkout elsewhere, each
\* of which may be installed from into the other; an older and a newer release.
EXTENDS Installer

MCPlace == {"plugins", "checkout"}
MCWithin == {<<p, p>> : p \in MCPlace}

MCRelease == {1, 2}

\* Tools of the newer release need its modules.
MCCompatible == {<<1, 1>>, <<1, 2>>, <<2, 2>>}

\* The manifest and two of the tools.
MCCopied == <<"plugin.yaml", "neuro_core_2_capture.py", "neuro_core_2_validate.py">>

\* The older one was called by another name.
MCNamed == {2}

=============================================================================
